---- MODULE Spec2Model ----
(***************************************************************************)
(* RLWE blind signature core (cloudsupper/rlwe-bdhke): modular arithmetic, *)
(* the negacyclic NTT, Polynomial, the message hash and the RLWESignature  *)
(* protocol, as a state machine driven by a caller.                        *)
(*                                                                         *)
(* A polynomial value is a record [coeffs, ring_dim, modulus] whose coeffs *)
(* is a function on 0..ring_dim-1 (the std::vector of the code).  A raised *)
(* C++ exception is the record [error |-> <exception type>].               *)
(***************************************************************************)
EXTENDS Integers, Sequences, FiniteSets, TLC

(***************************************************************************)
(* Bounds of the model.                                                    *)
(***************************************************************************)
\* the signer runs are explored in rings of dimension <= MaxRingDim whenever
\* the ring supports a product (an unsupported ring raises before any work)
MaxRingDim == 8
\* the direct Polynomial / NTT calls are explored up to dimension MaxNttDim
MaxNttDim == 32
\* largest |getRandomDouble()| in tenths: Box-Muller over 64-bit uniforms
\* gives a radius of at most sqrt(2 * 64 * ln 2) = 9.4
MaxNormal10 == 94

(***************************************************************************)
(* A local variable of the code is a value computed once: Only({ e : x \in *)
(* {v} }) is e with x standing for the value of v.                         *)
(***************************************************************************)
Only(S) == CHOOSE r \in S : TRUE

\* a vector is held as an explicit table of its entries (std::vector storage)
Strict(v) == v @@ [x \in {} |-> 0]

(***************************************************************************)
(* ModArith: NTT::modAdd / modSub / modMul / modPow / modInverse.          *)
(* All moduli of the catalog are below 2^16, so a product of two reduced   *)
(* operands stays below 2^32 and the uint64_t product does not wrap.       *)
(***************************************************************************)
modAdd(x, y, m) == IF x + y >= m THEN x + y - m ELSE x + y

modSub(x, y, m) == IF x >= y THEN x - y ELSE x + m - y

modMul(x, y, m) == (x * y) % m

\* square-and-multiply: the result for exp is that for exp / 2 over base^2,
\* times base when the low bit of exp is set
RECURSIVE modPow(_, _, _)
modPow(base, exp, m) ==
    IF exp = 0 THEN 1
    ELSE Only({ IF exp % 2 = 1 THEN modMul(rest, base, m) ELSE rest :
                  rest \in { modPow(sq, exp \div 2, m) :
                               sq \in { modMul(base, base, m) } } })

\* C++ integer division and remainder truncate toward zero
cdiv(x, y) == IF (x >= 0) = (y > 0) THEN (IF x >= 0 THEN x ELSE -x) \div (IF y > 0 THEN y ELSE -y)
              ELSE -((IF x >= 0 THEN x ELSE -x) \div (IF y > 0 THEN y ELSE -y))

crem(x, y) == x - y * cdiv(x, y)

NoInverse == [error |-> "invalid_argument"]

RECURSIVE egcd(_, _, _, _)
egcd(t, new_t, r, new_r) ==
    IF new_r = 0 THEN <<t, r>>
    ELSE LET q == cdiv(r, new_r)
         IN  Only({ egcd(new_t, next_t, new_r, next_r) :
                      next_t \in { t - q * new_t }, next_r \in { r - q * new_r } })

\* returns the inverse, or NoInverse when the code throws
modInverse(x, m) ==
    Only({ IF tr[2] > 1 THEN NoInverse
           ELSE IF tr[1] < 0 THEN tr[1] + m ELSE tr[1] :
             tr \in { egcd(0, 1, m, x % m) } })

(***************************************************************************)
(* The same arithmetic at the full width of uint64_t.  A value is the      *)
(* sequence of its bytes, least significant first: eight bytes for a       *)
(* uint64_t, sixteen for a product over the integers.                      *)
(***************************************************************************)
RECURSIVE bytesOf(_, _)
bytesOf(x, len) == IF len = 0 THEN << >> ELSE << x % 256 >> \o bytesOf(x \div 256, len - 1)

\* a value below 2^31 as a uint64_t
u64(x) == bytesOf(x, 8)

\* sum of the byte products that land on byte k of a product
RECURSIVE column(_, _, _, _)
column(x, y, k, i) ==
    IF i > Len(x) THEN 0
    ELSE (IF (k - i + 1) \in 1..Len(y) THEN x[i] * y[k - i + 1] ELSE 0)
         + column(x, y, k, i + 1)

\* carries pushed from byte k upwards; a carry out of the top byte is lost
RECURSIVE propagate(_, _, _)
propagate(cols, k, carry) ==
    IF k > Len(cols) THEN << >>
    ELSE << (cols[k] + carry) % 256 >>
         \o propagate(cols, k + 1, (cols[k] + carry) \div 256)

\* the product of two values over the integers, as sixteen bytes
product(x, y) == propagate([k \in 1..16 |-> column(x, y, k, 1)], 1, 0)

\* a * b in uint64_t: the low eight bytes of the product
product_u64(x, y) == SubSeq(product(x, y), 1, 8)

\* x >= y for values of one length
RECURSIVE geq(_, _, _)
geq(x, y, k) ==
    IF k = 0 THEN TRUE
    ELSE IF x[k] # y[k] THEN x[k] > y[k] ELSE geq(x, y, k - 1)

\* x - y for x >= y
RECURSIVE minus(_, _, _, _)
minus(x, y, k, borrow) ==
    IF k > Len(x) THEN << >>
    ELSE << (x[k] - y[k] - borrow + 256) % 256 >>
         \o minus(x, y, k + 1, IF x[k] - y[k] - borrow < 0 THEN 1 ELSE 0)

\* long division by m, 0 < m < 2^63, over the bits of one byte, from bit k
\* downwards: the remainder r so far is doubled, the bit is added and m is
\* subtracted once if it fits
RECURSIVE remainderBits(_, _, _, _)
remainderBits(byte, m, k, r) ==
    IF k < 0 THEN r
    ELSE Only({ remainderBits(byte, m, k - 1,
                              IF geq(r2, m, 8) THEN minus(r2, m, 1, 0) ELSE r2) :
                  r2 \in { propagate([i \in 1..8 |-> 2 * r[i]], 1,
                                      (byte \div (2 ^ k)) % 2) } })

\* the same over the bytes of x, from byte k downwards
RECURSIVE remainderFrom(_, _, _, _)
remainderFrom(x, m, k, r) ==
    IF k = 0 THEN r
    ELSE Only({ remainderFrom(x, m, k - 1, r8) :
                  r8 \in { remainderBits(x[k], m, 7, r) } })

\* x % m
remainder(x, m) == remainderFrom(x, m, Len(x), u64(0))

\* NTT::modMul and the products of Polynomial: (a * b) % m in uint64_t
modMul_u64(x, y, m) == remainder(product_u64(x, y), m)

\* (a * b) mod m over the integers
modMul_exact(x, y, m) == remainder(product(x, y), m)

\* 2^64 - x for 0 < x: the bytes inverted, plus one
negated_u64(x) == propagate([i \in 1..8 |-> 255 - x[i]], 1, 1)

\* Polynomial::mod(int64_t x, uint64_t m) on a uint64_t argument c, for
\* m < 2^63: c converts to the negative c - 2^64 from 2^63 on, the remainder
\* of a negative dividend is negative, and m is added to it
mod_u64(c, m) ==
    IF c[8] < 128 THEN remainder(c, m)
    ELSE Only({ IF r = u64(0) THEN r ELSE minus(m, r, 1, 0) :
                  r \in { remainder(negated_u64(c), m) } })

\* NTT::modInverse(x, m) for m = 2^64 - k, 0 < k, and x < m below 2^31:
\* static_cast<int64_t>(m) is -k and x % m is x.  The result is the value of
\* t, which converts to 2^64 + t when negative.
modInverse_top(x, k) ==
    Only({ IF tr[2] > 1 THEN NoInverse
           ELSE [value |-> IF tr[1] < 0 THEN tr[1] - k ELSE tr[1]] :
             tr \in { egcd(0, 1, -k, x) } })

\* n && ((n & (n - 1)) == 0)
RECURSIVE isPowerOfTwo(_)
isPowerOfTwo(n) == n # 0 /\ (n = 1 \/ (n % 2 = 0 /\ isPowerOfTwo(n \div 2)))

(***************************************************************************)
(* PsiTables: the table generator (findPsi and the emitted tables).        *)
(***************************************************************************)
RECURSIVE halvingOk(_, _, _)
halvingOk(cand, tmp_k, q) ==
    IF tmp_k % 2 = 0 /\ tmp_k > 1
    THEN IF modPow(cand, tmp_k \div 2, q) = 1 THEN FALSE
         ELSE halvingOk(cand, tmp_k \div 2, q)
    ELSE TRUE

RECURSIVE findPsiFrom(_, _, _)
findPsiFrom(g, q, n) ==
    IF g >= q THEN 0
    ELSE Only({ IF modPow(cand, 2 * n, q) # 1 THEN findPsiFrom(g + 1, q, n)
                ELSE IF ~halvingOk(cand, 2 * n, q) THEN findPsiFrom(g + 1, q, n)
                ELSE IF modPow(cand, n, q) # q - 1 THEN findPsiFrom(g + 1, q, n)
                ELSE cand :
                  cand \in { modPow(g, (q - 1) \div (2 * n), q) } })

findPsi(q, n) == findPsiFrom(2, q, n)

makeTables(n, q) ==
    Only({ Only({ [n |-> n, q |-> q, psi |-> psi, psi_inv |-> psi_inv,
                   twist     |-> Strict([i \in 0..(n - 1) |-> modPow(psi, 2 * i + 1, q)]),
                   twist_inv |-> Strict([i \in 0..(n - 1) |-> modPow(psi_inv, 2 * i + 1, q)])] :
                    psi_inv \in { modInverse(psi, q) } }) :
             psi \in { findPsi(q, n) } })

tables_8_7681 == makeTables(8, 7681)
tables_32_7681 == makeTables(32, 7681)
tables_256_7681 == makeTables(256, 7681)
tables_512_12289 == makeTables(512, 12289)
tables_1024_18433 == makeTables(1024, 18433)

NoTable == [n |-> 0]

getPsiTables(n, q) ==
    IF n = 8 /\ q = 7681 THEN tables_8_7681
    ELSE IF n = 32 /\ q = 7681 THEN tables_32_7681
    ELSE IF n = 256 /\ q = 7681 THEN tables_256_7681
    ELSE IF n = 512 /\ q = 12289 THEN tables_512_12289
    ELSE IF n = 1024 /\ q = 18433 THEN tables_1024_18433
    ELSE NoTable

(***************************************************************************)
(* NTT: construction, bit reversal, butterflies, forward and inverse.      *)
(***************************************************************************)
InvalidArgument == [error |-> "invalid_argument"]
RuntimeError == [error |-> "runtime_error"]

IsError(v) == "error" \in DOMAIN v

\* a construction that takes psi itself for omega
NTT_omegaPsi(n, q) ==
    IF ~isPowerOfTwo(n) THEN InvalidArgument
    ELSE IF q < 2 THEN InvalidArgument
    ELSE IF (q - 1) % (2 * n) # 0 THEN InvalidArgument
    ELSE Only({ IF tbl = NoTable THEN InvalidArgument
                ELSE Only({ [n_ |-> n, q_ |-> q,
                             omega_ |-> omega,
                             omega_inv_ |-> modInverse(omega, q),
                             n_inv_ |-> modInverse(n, q),
                             psi_powers_ |-> tbl.twist,
                             psi_powers_inv_ |-> tbl.twist_inv] :
                              omega \in { tbl.psi } }) :
                  tbl \in { getPsiTables(n, q) } })

\* NTT::NTT(n, q, negacyclic = true): the context, or the raised exception
NTT(n, q) ==
    IF ~isPowerOfTwo(n) THEN InvalidArgument
    ELSE IF q < 2 THEN InvalidArgument
    ELSE IF (q - 1) % (2 * n) # 0 THEN InvalidArgument
    ELSE Only({ IF tbl = NoTable THEN InvalidArgument
                ELSE Only({ [n_ |-> n, q_ |-> q,
                             omega_ |-> omega,
                             omega_inv_ |-> modInverse(omega, q),
                             n_inv_ |-> modInverse(n, q),
                             psi_powers_ |-> tbl.twist,
                             psi_powers_inv_ |-> tbl.twist_inv] :
                              omega \in { modMul(tbl.psi, tbl.psi, q) } }) :
                  tbl \in { getPsiTables(n, q) } })

\* The swap loop of NTT::bitReverse walks i = 1..n-2 with j the bit-reversed
\* counter (j ^= bit carries from the top bit down) and swaps a[i], a[j] once
\* per pair i < j: entry i of the result is entry reversed(i) of the input.
RECURSIVE reversed(_, _, _)
reversed(i, bit, acc) ==
    IF bit = 0 THEN acc
    ELSE reversed(i \div 2, bit \div 2, acc + (IF i % 2 = 1 THEN bit ELSE 0))

bitReverse(v, n) == Strict([i \in 0..(n - 1) |-> v[reversed(i, n \div 2, 0)]])

\* for (i = len; i < n; i <<= 1) wlen = wlen * wlen
RECURSIVE stageRoot(_, _, _, _)
stageRoot(wlen, i, n, q) ==
    IF i < n
    THEN Only({ stageRoot(squared, 2 * i, n, q) : squared \in { modMul(wlen, wlen, q) } })
    ELSE wlen

\* w after j steps of  w = modMul(w, wlen, q)  from w = 1
runW(wlen, j, q) == modPow(wlen, j, q)

\* one pass of the butterflies of block length len over the whole vector
butterflies(v, len, wlen, n, q) ==
    LET half == len \div 2
    IN  Strict([k \in 0..(n - 1) |->
            IF k % len < half
            THEN modAdd(v[k], modMul(v[k + half], runW(wlen, k % len, q), q), q)
            ELSE modSub(v[k - half],
                        modMul(v[k], runW(wlen, (k % len) - half, q), q), q)])

RECURSIVE nttStages(_, _, _, _, _)
nttStages(v, len, root, n, q) ==
    IF len <= n
    THEN Only({ nttStages(next, 2 * len, root, n, q) :
                  next \in { butterflies(v, len, wlen, n, q) :
                               wlen \in { stageRoot(root, len, n, q) } } })
    ELSE v

\* NTT::ntt(a, inverse)
ntt(ctx, v, inv) ==
    Only({ IF inv THEN Strict([i \in 0..(ctx.n_ - 1) |->
                                  modMul(out[i], ctx.n_inv_, ctx.q_)])
           ELSE out :
             out \in { nttStages(rev, 2, IF inv THEN ctx.omega_inv_ ELSE ctx.omega_,
                                 ctx.n_, ctx.q_) :
                         rev \in { bitReverse(v, ctx.n_) } } })

\* NTT::forward(std::vector&) on a vector of length n
forward(ctx, v) ==
    Only({ ntt(ctx, twisted, FALSE) :
             twisted \in { Strict([i \in 0..(ctx.n_ - 1) |->
                                      modMul(v[i], ctx.psi_powers_[i], ctx.q_)]) } })

\* the inverse transform with the final multiplication by psi^-(2i+1) left out
inverse_untwisted(ctx, v) == ntt(ctx, v, TRUE)

\* NTT::inverse(std::vector&) on a vector of length n
inverse(ctx, v) ==
    Only({ Strict([i \in 0..(ctx.n_ - 1) |->
                      modMul(w[i], ctx.psi_powers_inv_[i], ctx.q_)]) :
             w \in { ntt(ctx, v, TRUE) } })

(***************************************************************************)
(* Polynomial.                                                             *)
(***************************************************************************)
\* Polynomial(size_t n, uint64_t q): the zero polynomial
ZeroPoly(n, q) ==
    [coeffs |-> Strict([i \in 0..(n - 1) |-> 0]), ring_dim |-> n, modulus |-> q]

\* Polynomial(const std::vector<uint64_t>&, uint64_t q): coefficients stored as given
Poly(v, n, q) == [coeffs |-> Strict(v), ring_dim |-> n, modulus |-> q]

\* Polynomial::mod(int64_t x, uint64_t m) for |x| below 2^31
mod(x, m) == LET r == crem(x, m) IN IF r < 0 THEN r + m ELSE r

\* Polynomial::setCoefficients on a vector of the polynomial's dimension
setCoefficients(poly, new_coeffs) ==
    Only({ [p EXCEPT !.coeffs = Strict([i \in 0..(p.ring_dim - 1) |-> mod(v[i], p.modulus)])] :
             p \in {poly}, v \in {new_coeffs} })

min(x, y) == IF x <= y THEN x ELSE y

\* the rounding with a tie between the two distances sent to floor(q/2)
signalOf_tieToHalf(coeff, modulus) ==
    LET half_mod     == modulus \div 2
        dist_to_zero == min(coeff, modulus - coeff)
        dist_to_half == min(IF coeff >= half_mod THEN coeff - half_mod
                                                 ELSE half_mod - coeff,
                            IF coeff >= half_mod THEN modulus - coeff + half_mod
                                                 ELSE modulus - half_mod + coeff)
    IN  IF dist_to_zero < dist_to_half THEN 0 ELSE half_mod

\* the per-coefficient body of Polynomial::polySignal
signalOf(coeff, modulus) ==
    LET half_mod     == modulus \div 2
        dist_to_zero == min(coeff, modulus - coeff)
        dist_to_half == min(IF coeff >= half_mod THEN coeff - half_mod
                                                 ELSE half_mod - coeff,
                            IF coeff >= half_mod THEN modulus - coeff + half_mod
                                                 ELSE modulus - half_mod + coeff)
    IN  IF dist_to_zero <= dist_to_half THEN 0 ELSE half_mod

\* rounding by the half-open interval [0, q/2) instead of by distance
polySignal_floor(poly) ==
    Only({ [p EXCEPT !.coeffs = Strict([i \in 0..(p.ring_dim - 1) |->
               IF p.coeffs[i] < p.modulus \div 2 THEN 0 ELSE p.modulus \div 2])] :
             p \in {poly} })

\* Polynomial::polySignal
polySignal(poly) ==
    Only({ [p EXCEPT !.coeffs = Strict([i \in 0..(p.ring_dim - 1) |->
               signalOf(p.coeffs[i], p.modulus)])] :
             p \in {poly} })

\* uint64_t& operator[](size_t idx) used to store a value: no reduction
setElement(poly, idx, value) == [poly EXCEPT !.coeffs[idx] = value]

\* a ring test that compares the dimensions only
SameRing_dim(f, g) == f.ring_dim = g.ring_dim

\* ring_dim == other.ring_dim && modulus == other.modulus
SameRing(f, g) == f.ring_dim = g.ring_dim /\ f.modulus = g.modulus

\* Polynomial::operator+
PolyAdd(lhs, rhs) ==
    Only({ IF IsError(f) THEN f ELSE IF IsError(g) THEN g
           ELSE IF ~SameRing(f, g) THEN InvalidArgument
           ELSE [f EXCEPT !.coeffs = Strict([i \in 0..(f.ring_dim - 1) |->
                                          (f.coeffs[i] + g.coeffs[i]) % f.modulus])] :
             f \in {lhs}, g \in {rhs} })

\* Polynomial::operator-(const Polynomial&)
PolySub(lhs, rhs) ==
    Only({ IF IsError(f) THEN f ELSE IF IsError(g) THEN g
           ELSE IF ~SameRing(f, g) THEN InvalidArgument
           ELSE [f EXCEPT !.coeffs = Strict([i \in 0..(f.ring_dim - 1) |->
                                          mod(f.coeffs[i] - g.coeffs[i], f.modulus)])] :
             f \in {lhs}, g \in {rhs} })

\* Polynomial::operator-()
PolyNeg(operand) ==
    Only({ [f EXCEPT !.coeffs = Strict([i \in 0..(f.ring_dim - 1) |->
               IF f.coeffs[i] = 0 THEN 0 ELSE f.modulus - f.coeffs[i]])] :
             f \in {operand} })

\* Polynomial::operator*(uint64_t scalar)
PolyScale(operand, scalar) ==
    Only({ [f EXCEPT !.coeffs = Strict([i \in 0..(f.ring_dim - 1) |->
               (f.coeffs[i] * scalar) % f.modulus])] :
             f \in {operand} })

\* the transform-multiply-transform body of Polynomial::operator*
nttProduct(ctx, f, g) ==
    Only({ setCoefficients(ZeroPoly(f.ring_dim, f.modulus), result) :
             result \in { inverse(ctx, prod) :
               prod \in { Strict([i \in 0..(f.ring_dim - 1) |->
                                     (a_vec[i] * b_vec[i]) % f.modulus]) :
                            a_vec \in { forward(ctx, f.coeffs) },
                            b_vec \in { forward(ctx, g.coeffs) } } } })

\* Polynomial::operator*(const Polynomial&)
PolyMul(lhs, rhs) ==
    Only({ IF IsError(f) THEN f ELSE IF IsError(g) THEN g
           ELSE IF ~SameRing(f, g) THEN InvalidArgument
           ELSE Only({ IF IsError(ctx) THEN ctx ELSE nttProduct(ctx, f, g) :
                         ctx \in { NTT(f.ring_dim, f.modulus) } }) :
             f \in {lhs}, g \in {rhs} })

(***************************************************************************)
(* Reference arithmetic in Z_q[x]/(x^n + 1), used to state the properties: *)
(* the schoolbook product reduced with x^n = -1.                           *)
(***************************************************************************)
RECURSIVE convSum(_, _, _, _, _, _)
convSum(fc, gc, i, j, n, q) ==
    IF j >= n THEN 0
    ELSE LET term == IF j <= i THEN fc[j] * gc[i - j]
                     ELSE -(fc[j] * gc[n + i - j])
         IN  ((term % q) + convSum(fc, gc, i, j + 1, n, q)) % q

SchoolbookCoeffs(fc, gc, n, q) ==
    Strict([i \in 0..(n - 1) |-> convSum(fc, gc, i, 0, n, q)])

Schoolbook(f, g) == Poly(SchoolbookCoeffs(f.coeffs, g.coeffs, f.ring_dim, f.modulus),
                         f.ring_dim, f.modulus)

(***************************************************************************)
(* State: one RLWESignature object, the Logger statics, the values the     *)
(* calling program holds, and the operands of direct Polynomial calls.     *)
(***************************************************************************)
VARIABLES
    pc,               \* position of the calling program
    err,              \* exception raised by the last call, or "none"
    lastOp,           \* name of the last call
    level,            \* constructor argument
    ring_dim_n, modulus, gaussian_stddev,
    diagnostics,      \* warnings the constructor wrote to *Logger::out
    a, b, s,          \* fields of the signer
    e,                \* local e of the last generateKeys that returned
    keygens,          \* number of generateKeys calls that returned
    honest,           \* no generateKeys call since the signature was computed
    pubkey,           \* the caller's copy of getPublicKey()
    secret, Y, blindedMessage, blindingFactor,
    e1, blindSignature, signature,
    vmsg, vsig, verified,
    z,                \* local z of the last verify: the hashed message
    enable_logging,   \* Logger::enable_logging
    logOut,           \* polynomials written to *Logger::out by the last call
    pf, pg, pr, pop,  \* operands, result and name of a direct Polynomial call
    currentParams,    \* the record the last getParameters() returned
    hashResult,       \* the polynomial the last direct hashToPolynomial returned
    hashBlocks,       \* the blocks that call handed to SHA256::hash, in order
    arith,            \* a direct call of the modular arithmetic and its result
    running,          \* per thread: the signer operation it runs and its position
    accesses          \* the reads and writes the threads have made so far

(***************************************************************************)
(* SHA-256 (OpenSSL) on the blocks the explored messages produce, and the  *)
(* counter-mode message hash.                                              *)
(***************************************************************************)
\* the four bytes of the uint32_t counter as laid out on a little-endian host
counterBytes(counter) ==
    << counter % 256, (counter \div 256) % 256,
       (counter \div 65536) % 256, (counter \div 16777216) % 256 >>

SHA256_hash(block) ==
    CASE block = <<0, 0, 0, 0>> ->
           <<223, 63, 97, 152, 4, 169, 47, 219, 64, 87, 25, 45, 196, 61, 215, 72,
             234, 119, 138, 220, 82, 188, 73, 140, 232, 5, 36, 192, 20, 184, 17, 25>>
      [] block = <<1, 0, 0, 0>> ->
           <<103, 171, 221, 114, 16, 36, 240, 255, 78, 11, 63, 76, 47, 193, 59, 197,
             186, 212, 45, 11, 120, 81, 212, 86, 216, 141, 32, 61, 21, 170, 164, 80>>
      [] block = <<2, 0, 0, 0>> ->
           <<38, 178, 93, 69, 117, 151, 167, 176, 70, 63, 150, 32, 246, 102, 221, 16,
             170, 44, 67, 115, 165, 5, 150, 124, 124, 141, 112, 146, 42, 45, 110, 206>>
      [] block = <<3, 0, 0, 0>> ->
           <<157, 159, 41, 5, 39, 166, 190, 98, 106, 143, 89, 133, 178, 110, 25, 178,
             55, 180, 72, 114, 176, 54, 49, 129, 29, 244, 65, 111, 193, 113, 49, 120>>
      [] block = <<0, 0, 0, 0, 222, 173, 190, 239>> ->
           <<75, 218, 114, 9, 137, 123, 26, 4, 194, 187, 14, 116, 82, 51, 120, 154,
             238, 53, 255, 147, 136, 3, 246, 41, 76, 121, 207, 176, 236, 75, 249, 154>>
      [] block = <<1, 0, 0, 0, 222, 173, 190, 239>> ->
           <<189, 223, 152, 157, 154, 225, 173, 132, 177, 28, 2, 129, 16, 153, 4, 5,
             2, 153, 168, 101, 230, 73, 125, 66, 178, 239, 167, 91, 178, 82, 195, 148>>
      [] block = <<2, 0, 0, 0, 222, 173, 190, 239>> ->
           <<122, 164, 187, 108, 223, 89, 55, 1, 89, 195, 191, 94, 68, 38, 77, 190,
             250, 172, 106, 202, 71, 56, 85, 70, 125, 44, 142, 208, 248, 194, 32, 89>>
      [] block = <<3, 0, 0, 0, 222, 173, 190, 239>> ->
           <<249, 171, 111, 169, 156, 164, 26, 53, 218, 252, 4, 2, 208, 42, 56, 193,
             253, 240, 68, 44, 245, 30, 172, 158, 178, 144, 76, 169, 72, 137, 175, 105>>
      [] block = <<0, 0, 0, 0, 222, 173, 190, 238>> ->
           <<123, 29, 142, 53, 71, 212, 166, 211, 44, 65, 210, 246, 124, 251, 136, 203,
             251, 177, 219, 234, 253, 243, 229, 55, 45, 37, 74, 198, 173, 231, 184, 219>>
      [] block = <<1, 0, 0, 0, 222, 173, 190, 238>> ->
           <<203, 34, 93, 200, 7, 69, 95, 80, 185, 141, 61, 61, 151, 177, 157, 92,
             82, 193, 117, 94, 229, 44, 136, 15, 9, 123, 182, 170, 245, 223, 224, 212>>
      [] block = <<2, 0, 0, 0, 222, 173, 190, 238>> ->
           <<7, 44, 140, 224, 176, 87, 175, 152, 155, 166, 255, 122, 74, 46, 85, 15,
             207, 163, 73, 214, 190, 119, 74, 89, 66, 83, 124, 26, 227, 167, 116, 121>>
      [] block = <<3, 0, 0, 0, 222, 173, 190, 238>> ->
           <<66, 114, 63, 70, 54, 71, 205, 232, 8, 83, 185, 9, 189, 109, 199, 246,
             123, 207, 43, 123, 91, 6, 194, 18, 20, 181, 117, 231, 242, 198, 173, 89>>

\* (hash[byte_idx] >> bit) & 1
bitOf(byte, bit) == (byte \div (2 ^ bit)) % 2

\* a hash whose bits are inverted while the signer has made an odd number of
\* keys
hashToPolynomial_keyed(message, n, q) ==
    Poly([i \in 0..(n - 1) |->
            LET hash == SHA256_hash(counterBytes(i \div 256) \o message)
                byte == hash[((i % 256) \div 8) + 1]
            IN  IF bitOf(byte, 7 - (i % 8)) = (keygens + 1) % 2 THEN q \div 2 ELSE 0],
         n, q)

\* RLWESignature::hashToPolynomial: coefficient i is taken from the digest of
\* counter i / 256, byte (i % 256) / 8, bits from 7 down to 0
hashToPolynomial(message, n, q) ==
    Poly([i \in 0..(n - 1) |->
            LET hash == SHA256_hash(counterBytes(i \div 256) \o message)
                byte == hash[((i % 256) \div 8) + 1]
            IN  IF bitOf(byte, 7 - (i % 8)) = 1 THEN q \div 2 ELSE 0],
         n, q)

\* the bits of a digest with the low bit of each byte first
digestBits_lsbFirst(hash) ==
    [k \in 1..(8 * Len(hash)) |-> bitOf(hash[((k - 1) \div 8) + 1], (k - 1) % 8)]

\* the bits of a digest in the order the two inner loops read them: bytes
\* in order, bit 7 down to bit 0 of each
digestBits(hash) ==
    [k \in 1..(8 * Len(hash)) |-> bitOf(hash[((k - 1) \div 8) + 1], 7 - ((k - 1) % 8))]

\* the while loop of hashToPolynomial, one iteration per call: coeffs holds
\* the coefficients written so far, blocks the blocks hashed so far
RECURSIVE hashLoop(_, _, _, _, _, _)
hashLoop(message, n, q, coeffs, counter, blocks) ==
    IF Len(coeffs) >= n THEN [coeffs |-> coeffs, blocks |-> blocks]
    ELSE Only({ hashLoop(message, n, q,
                         coeffs \o [k \in 1..min(Len(bits), n - Len(coeffs)) |->
                                       IF bits[k] = 1 THEN q \div 2 ELSE 0],
                         counter + 1,
                         Append(blocks, counterBytes(counter) \o message)) :
                  bits \in { digestBits(SHA256_hash(counterBytes(counter) \o message)) } })

\* a direct call hashToPolynomial(message): the polynomial returned and the
\* blocks handed to SHA256::hash
hashCall(message, n, q) ==
    Only({ [result |-> Poly([i \in 0..(n - 1) |-> run.coeffs[i + 1]], n, q),
            blocks |-> run.blocks] :
             run \in { hashLoop(message, n, q, << >>, 0, << >>) } })

(***************************************************************************)
(* ParameterCatalog.  sigma is held in tenths.                             *)
(***************************************************************************)
Levels == {"TEST_TINY", "TEST_SMALL", "KYBER512", "MODERATE", "HIGH"}

getParameterSet(lvl) ==
    CASE lvl = "TEST_TINY"  -> [n |-> 8, q |-> 7681, sigma10 |-> 30,
                                classical_bits |-> 4, quantum_bits |-> 2, is_secure |-> FALSE]
      [] lvl = "TEST_SMALL" -> [n |-> 32, q |-> 7681, sigma10 |-> 30,
                                classical_bits |-> 16, quantum_bits |-> 8, is_secure |-> FALSE]
      [] lvl = "KYBER512"   -> [n |-> 256, q |-> 3329, sigma10 |-> 16,
                                classical_bits |-> 128, quantum_bits |-> 64, is_secure |-> TRUE]
      [] lvl = "MODERATE"   -> [n |-> 512, q |-> 12289, sigma10 |-> 32,
                                classical_bits |-> 192, quantum_bits |-> 96, is_secure |-> TRUE]
      [] lvl = "HIGH"       -> [n |-> 1024, q |-> 16384, sigma10 |-> 32,
                                classical_bits |-> 256, quantum_bits |-> 128, is_secure |-> TRUE]
      [] OTHER              -> [n |-> 256, q |-> 3329, sigma10 |-> 16,
                                classical_bits |-> 128, quantum_bits |-> 64, is_secure |-> TRUE]

validatePowerOfTwo(n) == isPowerOfTwo(n)

\* RLWESignature::getParameters(): the bit estimates are computed from the
\* ring dimension (static_cast<int> of n * 0.5, n * 0.25, n * 0.6, n * 0.3
\* truncates), not read from the catalog
getParameters(n, q, sigma10) ==
    [n |-> n, q |-> q, sigma10 |-> sigma10,
     classical_bits |-> IF n < 128 THEN n \div 2
                        ELSE IF n < 256 THEN 80 ELSE (6 * n) \div 10,
     quantum_bits |-> IF n < 128 THEN n \div 4
                      ELSE IF n < 256 THEN 40 ELSE (3 * n) \div 10,
     is_secure |-> n >= 256]

\* the warnings of validateSecurityParameters: n below 256, and a noise ratio
\* sigma / q above 0.01; it raises nothing
validateSecurityParameters(n, q, sigma10) ==
    (IF n < 256 THEN {"small_ring"} ELSE {})
    \cup (IF sigma10 * 10 > q THEN {"noise_ratio"} ELSE {})

(***************************************************************************)
(* RandomSource and samplers.  The OS random source is the environment: a  *)
(* call of a sampler draws one stream of it, or the source fails.          *)
(***************************************************************************)
UniformStreams == {"unit", "spread"}
GaussStreams == {"small", "extreme"}
\* the secret s is also drawn from a stream of ordinary draws
SecretStreams == GaussStreams \cup {"typical"}

\* getRandomUint64() for coefficient i of a stream
randomUint64(stream, i) ==
    IF stream = "unit" THEN (IF i = 0 THEN 7682 ELSE 7681 * 5)
    ELSE 40503 * (i + 1) + 977

\* getRandomDouble() for coefficient i of a stream, in tenths
randomDouble10(stream, i) ==
    IF stream = "small" THEN ((7 * i + 3) % 21) - 10
    ELSE IF stream = "typical"
         THEN <<13, 28, 29, -29, 24, -13, 8, 12>>[(i % 8) + 1]
    ELSE IF i % 2 = 0 THEN MaxNormal10 ELSE -MaxNormal10

\* std::round(z10 / 10 * sigma10 / 10): nearest integer, halves away from zero
roundedSample(z10, sigma10) ==
    LET num == z10 * sigma10
    IN  IF num >= 0 THEN (2 * num + 100) \div 200
        ELSE -((2 * (-num) + 100) \div 200)

\* if (rounded < 0) rounded += modulus;  coeffs[i] = rounded % modulus, the
\* remainder being taken on the value converted to uint64_t
canonical(rounded, q) ==
    LET r2 == IF rounded < 0 THEN rounded + q ELSE rounded
    IN  IF r2 >= 0 THEN r2 % q
        ELSE (modPow(2, 64, q) + (r2 % q)) % q

sampleUniform(stream, n, q) ==
    Poly([i \in 0..(n - 1) |-> randomUint64(stream, i) % q], n, q)

sampleGaussian(stream, n, q, sigma10) ==
    Poly([i \in 0..(n - 1) |->
            canonical(roundedSample(randomDouble10(stream, i), sigma10), q)], n, q)

(***************************************************************************)
(* RLWESignature: the pure part of the protocol operations.                *)
(***************************************************************************)
\* only ring_dim_n is validated by the constructors
constructible(n) == validatePowerOfTwo(n)

\* unblinding with the sign of r*A flipped
computeSignature_plus(blindSig, blindFactor, publicKey) ==
    PolyAdd(blindSig, PolyMul(blindFactor, publicKey))

\* C_ - r*A
computeSignature(blindSig, blindFactor, publicKey) ==
    PolySub(blindSig, PolyMul(blindFactor, publicKey))

\* b = a * s + e
publicB(pa, ps, pe) == PolyAdd(PolyMul(pa, ps), pe)

\* Y + a * r
blindOf(pY, pa, pr_) == PolyAdd(pY, PolyMul(pa, pr_))

\* s * blindedMessagePoly + e1
blindSignOf(ps, pblinded, pe1) == PolyAdd(PolyMul(ps, pblinded), pe1)

\* a comparison that looks at the first coefficient only
firstMismatch_head(actual, expected) ==
    { i \in 0..(min(min(actual.ring_dim, expected.ring_dim), 1) - 1) :
          actual.coeffs[i] # expected.coeffs[i] }

\* the comparison loop of verify runs over the signature's signal: index i of
\* the expected signal is read for every i below the signature's size
firstMismatch(actual, expected) ==
    { i \in 0..(min(actual.ring_dim, expected.ring_dim) - 1) :
          actual.coeffs[i] # expected.coeffs[i] }

\* a verification that hashes one fixed message whatever message it is given
verifyOutcomes_fixed(message, sig, ps, n, q) ==
    Only({ IF IsError(expected) THEN {expected}
           ELSE Only({ IF firstMismatch(actual_signal, expected_signal) # {}
                       THEN {[result |-> FALSE]}
                       ELSE IF actual_signal.ring_dim > expected_signal.ring_dim
                            THEN {[result |-> TRUE], [result |-> FALSE]}
                            ELSE {[result |-> TRUE]} :
                         actual_signal \in { polySignal(sig) },
                         expected_signal \in { polySignal(expected) } }) :
             expected \in { PolyMul(ps, hashToPolynomial(<<222, 173, 190, 239>>, n, q)) } })

\* the outcomes of verify(message, sig) under secret ps: an exception, or the
\* booleans the loop can return; reading expected_coeffs past its end is
\* undefined and may compare either way
verifyOutcomes(message, sig, ps, n, q) ==
    Only({ IF IsError(expected) THEN {expected}
           ELSE Only({ IF firstMismatch(actual_signal, expected_signal) # {}
                       THEN {[result |-> FALSE]}
                       ELSE IF actual_signal.ring_dim > expected_signal.ring_dim
                            THEN {[result |-> TRUE], [result |-> FALSE]}
                            ELSE {[result |-> TRUE]} :
                         actual_signal \in { polySignal(sig) },
                         expected_signal \in { polySignal(expected) } }) :
             expected \in { PolyMul(ps, hashToPolynomial(message, n, q)) } })

vars == << pc, err, lastOp, level, ring_dim_n, modulus, gaussian_stddev,
           diagnostics, a, b, s, e, keygens, honest, pubkey, secret, Y, blindedMessage,
           blindingFactor, e1, blindSignature, signature, vmsg, vsig, verified,
           z, enable_logging, logOut, pf, pg, pr, pop, currentParams, hashResult,
           hashBlocks, arith, running, accesses >>

\* what only the two queries of a signer assign
queryVars == << currentParams, hashResult, hashBlocks >>
\* what no call on the one signer followed step by step assigns: a direct
\* call of the arithmetic, and the two signers run on threads of their own
callVars == << arith, running, accesses >>
\* what no call on a constructed signer assigns but a query
paramVars == << level, ring_dim_n, modulus, gaussian_stddev, diagnostics,
                queryVars, callVars >>
clientVars == << secret, Y, blindedMessage, blindingFactor >>
verifyVars == << vmsg, vsig, verified, z >>
polyVars == << pf, pg, pr, pop >>

\* Polynomial(1, 1): the value of a, b, s in the member initialiser list
NoPoly == ZeroPoly(1, 1)

\* no direct call of the arithmetic has been made
NoCall == [op |-> "none"]

\* the two threads, each with a signer of its own
Threads == {1, 2}
Idle == [op |-> "none", at |-> 0]

\* no record has been returned yet
NoParams == [n |-> 0, q |-> 0, sigma10 |-> 0, classical_bits |-> 0,
             quantum_bits |-> 0, is_secure |-> FALSE]

\* Logger::log writes only when enable_logging is set
logged(polys) == IF enable_logging THEN { p.coeffs : p \in { x \in polys : ~IsError(x) } }
                 ELSE {}

\* a ring whose product raises needs no transform; others are explored up to
\* MaxRingDim.  With modulus 0 the samplers divide by zero before anything
\* is assigned; the operations of such a signer are not followed.
explored(n, q) == q > 0 /\ (n <= MaxRingDim \/ IsError(NTT(n, q)))

Init ==
    /\ pc = "start" /\ err = "none" /\ lastOp = "none"
    /\ level = "none" /\ ring_dim_n = 0 /\ modulus = 0 /\ gaussian_stddev = 0
    /\ diagnostics = {}
    /\ a = NoPoly /\ b = NoPoly /\ s = NoPoly
    /\ e = NoPoly /\ keygens = 0 /\ honest = TRUE
    /\ pubkey = << NoPoly, NoPoly >>
    /\ secret = << >> /\ Y = NoPoly /\ blindedMessage = NoPoly
    /\ blindingFactor = NoPoly /\ e1 = NoPoly
    /\ blindSignature = NoPoly /\ signature = NoPoly
    /\ vmsg = << >> /\ vsig = NoPoly /\ verified = FALSE /\ z = NoPoly
    /\ enable_logging = FALSE /\ logOut = {}
    /\ pf = NoPoly /\ pg = NoPoly /\ pr = NoPoly /\ pop = "none"
    /\ currentParams = NoParams /\ hashResult = NoPoly /\ hashBlocks = << >>
    /\ arith = NoCall
    /\ running = [t \in Threads |-> Idle]
    /\ accesses = {}

\* Logger::enable_logging = true, before the signer is built
EnableLogging ==
    /\ pc = "start" /\ pop = "none" /\ ~enable_logging
    /\ enable_logging' = TRUE
    /\ UNCHANGED << pc, err, lastOp, paramVars, a, b, s, e, keygens, honest,
                    pubkey, clientVars, e1, blindSignature, signature,
                    verifyVars, logOut, polyVars >>

\* RLWESignature(SecurityLevel level)
Construct(lvl) ==
    /\ pc = "start" /\ pop = "none"
    /\ LET params == getParameterSet(lvl)
       IN  /\ level' = lvl
           /\ ring_dim_n' = params.n
           /\ modulus' = params.q
           /\ gaussian_stddev' = params.sigma10
           /\ a' = ZeroPoly(params.n, params.q)
           /\ b' = ZeroPoly(params.n, params.q)
           /\ s' = ZeroPoly(params.n, params.q)
           /\ IF constructible(params.n)
              THEN /\ pc' = "constructed" /\ err' = "none"
                   /\ diagnostics' =
                        IF enable_logging
                        THEN (IF params.is_secure THEN {} ELSE {"insecure_parameters"})
                             \cup validateSecurityParameters(params.n, params.q,
                                                             params.sigma10)
                        ELSE {}
              ELSE /\ pc' = "failed" /\ err' = "invalid_argument"
                   /\ diagnostics' = {}
    /\ lastOp' = "construct"
    /\ logOut' = {}
    /\ UNCHANGED << e, keygens, honest, pubkey, clientVars, e1, blindSignature,
                    signature, verifyVars, enable_logging, polyVars, queryVars,
                    callVars >>

\* arguments of the explicit constructor: ring dimensions that are and are
\* not powers of two, moduli that are and are not 1 mod 2n and the modulus
\* 0, sigma in tenths (0 selects the default 3.2)
ExplicitDims == {0, 6, 32}
ExplicitModuli == {0, 17, 7681}
ExplicitSigmas == {0, 30}

\* RLWESignature(size_t n, uint64_t q, double sigma)
ConstructExplicit(n, q, sigma10) ==
    /\ pc = "start" /\ pop = "none"
    /\ level' = "explicit"
    /\ ring_dim_n' = n
    /\ modulus' = q
    /\ gaussian_stddev' = IF sigma10 > 0 THEN sigma10 ELSE 32
    /\ a' = ZeroPoly(n, q) /\ b' = ZeroPoly(n, q) /\ s' = ZeroPoly(n, q)
    /\ IF constructible(n)
       THEN /\ pc' = "constructed" /\ err' = "none"
            /\ diagnostics' =
                 IF enable_logging
                 THEN validateSecurityParameters(n, q, gaussian_stddev')
                 ELSE {}
       ELSE /\ pc' = "failed" /\ err' = "invalid_argument"
            /\ diagnostics' = {}
    /\ lastOp' = "construct_explicit"
    /\ logOut' = {}
    /\ UNCHANGED << e, keygens, honest, pubkey, clientVars, e1, blindSignature,
                    signature, verifyVars, enable_logging, polyVars, queryVars,
                    callVars >>

\* generateKeys(): a and s are assigned as soon as they are sampled, b only
\* after a * s + e has been computed; the random source can fail at each of
\* the three samplers and the product raises in an unsupported ring
generateKeys ==
    /\ pc = "constructed" \/ (pc = "unblinded" /\ honest)
    /\ explored(ring_dim_n, modulus)
    /\ \E us \in UniformStreams, gs \in SecretStreams, ge \in GaussStreams,
          fail \in {"none", "a", "s", "e"} :
         \E na \in { sampleUniform(us, ring_dim_n, modulus) },
            ns \in { sampleGaussian(gs, ring_dim_n, modulus, gaussian_stddev) },
            ne \in { sampleGaussian(ge, ring_dim_n, modulus, gaussian_stddev) } :
           CASE fail = "a" ->
                  /\ UNCHANGED << a, s, b, e, keygens, pc >>
                  /\ err' = "runtime_error" /\ logOut' = {}
             [] fail = "s" ->
                  /\ a' = na /\ UNCHANGED << s, b, e, keygens, pc >>
                  /\ err' = "runtime_error" /\ logOut' = logged({na})
             [] fail = "e" ->
                  /\ a' = na /\ s' = ns /\ UNCHANGED << b, e, keygens, pc >>
                  /\ err' = "runtime_error" /\ logOut' = logged({na, ns})
             [] fail = "none" ->
                  \E as \in { PolyMul(na, ns) } :
                    \E nb \in { PolyAdd(as, ne) } :
                      IF IsError(nb)
                      THEN /\ a' = na /\ s' = ns
                           /\ UNCHANGED << b, e, keygens, pc >>
                           /\ err' = nb.error /\ logOut' = logged({na, ns, ne})
                      ELSE /\ a' = na /\ s' = ns /\ b' = nb /\ e' = ne
                           /\ keygens' = keygens + 1
                           /\ pc' = IF pc = "constructed" THEN "keyed" ELSE pc
                           /\ err' = "none"
                           /\ logOut' = logged({na, ns, ne, as, nb})
    /\ honest' = (pc = "constructed")
    /\ lastOp' = "generateKeys"
    /\ UNCHANGED << paramVars, pubkey, clientVars, e1, blindSignature, signature,
                    verifyVars, enable_logging, polyVars >>

\* a getPublicKey() that moves a and b out of the signer
getPublicKey_moving ==
    /\ pc = "keyed"
    /\ pubkey' = << a, b >>
    /\ a' = ZeroPoly(0, modulus) /\ b' = ZeroPoly(0, modulus)
    /\ pc' = "havekey" /\ err' = "none" /\ lastOp' = "getPublicKey"
    /\ logOut' = {}
    /\ UNCHANGED << paramVars, s, e, keygens, honest, clientVars, e1,
                    blindSignature, signature, verifyVars, enable_logging,
                    polyVars >>

\* getPublicKey(): the caller keeps the pair
getPublicKey ==
    /\ pc = "keyed"
    /\ pubkey' = << a, b >>
    /\ pc' = "havekey" /\ err' = "none" /\ lastOp' = "getPublicKey"
    /\ logOut' = {}
    /\ UNCHANGED << paramVars, a, b, s, e, keygens, honest, clientVars, e1,
                    blindSignature, signature, verifyVars, enable_logging,
                    polyVars >>

Secrets == { << >>, <<222, 173, 190, 239>> }

\* computeBlindedMessage(secret): returns (Y + a * r, r)
computeBlindedMessage ==
    /\ pc = "havekey"
    /\ explored(ring_dim_n, modulus)
    /\ \E m \in Secrets, gr \in GaussStreams, fail \in {"none", "r"} :
         IF fail = "r"
         THEN /\ UNCHANGED << clientVars, pc >>
              /\ err' = "runtime_error" /\ logOut' = {}
         ELSE \E r \in { sampleGaussian(gr, ring_dim_n, modulus, gaussian_stddev) },
                 nY \in { hashToPolynomial(m, ring_dim_n, modulus) } :
                \E ar \in { PolyMul(a, r) } :
                  \E blinded \in { PolyAdd(nY, ar) } :
                    IF IsError(blinded)
                    THEN /\ UNCHANGED << clientVars, pc >>
                         /\ err' = blinded.error /\ logOut' = logged({r, nY, a})
                    ELSE /\ secret' = m /\ Y' = nY
                         /\ blindedMessage' = blinded /\ blindingFactor' = r
                         /\ pc' = "blinded" /\ err' = "none"
                         /\ logOut' = logged({r, nY, a, ar, blinded})
    /\ lastOp' = "computeBlindedMessage"
    /\ UNCHANGED << paramVars, a, b, s, e, keygens, honest, pubkey, e1,
                    blindSignature, signature, verifyVars, enable_logging,
                    polyVars >>

\* what a caller hands to blindSign: the blinded message it computed, or, on
\* a signer whose generateKeys was never called, a polynomial of its own
blindInputs ==
    IF pc = "blinded" THEN { blindedMessage }
    ELSE { ZeroPoly(ring_dim_n, modulus),
           hashToPolynomial(<<222, 173, 190, 239>>, ring_dim_n, modulus) }

\* blindSign(blindedMessagePoly): returns s * blindedMessagePoly + e1
blindSign ==
    /\ pc \in {"blinded", "constructed"}
    /\ explored(ring_dim_n, modulus)
    /\ \E bm \in blindInputs, g1 \in GaussStreams, fail \in {"none", "e1"} :
         /\ blindedMessage' = bm
         /\ IF fail = "e1"
            THEN /\ UNCHANGED << e1, blindSignature, pc >>
                 /\ err' = "runtime_error" /\ logOut' = logged({bm})
            ELSE \E ne1 \in { sampleGaussian(g1, ring_dim_n, modulus, gaussian_stddev) },
                    sb \in { PolyMul(s, bm) } :
                   \E sig \in { PolyAdd(sb, ne1) } :
                     IF IsError(sig)
                     THEN /\ UNCHANGED << e1, blindSignature, pc >>
                          /\ err' = sig.error
                          /\ logOut' = logged({bm, ne1, s})
                     ELSE /\ e1' = ne1 /\ blindSignature' = sig
                          /\ pc' = IF pc = "blinded" THEN "signed" ELSE "issued"
                          /\ err' = "none"
                          /\ logOut' = logged({bm, ne1, s, sb, sig})
    /\ lastOp' = "blindSign"
    /\ UNCHANGED << paramVars, a, b, s, e, keygens, honest, pubkey, secret, Y,
                    blindingFactor, signature, verifyVars, enable_logging,
                    polyVars >>

\* computeSignature(blindSignature, blindingFactor, b) with the caller's b
unblind ==
    /\ pc = "signed"
    /\ explored(ring_dim_n, modulus)
    /\ \E sig \in { computeSignature(blindSignature, blindingFactor, pubkey[2]) } :
         IF IsError(sig)
         THEN /\ UNCHANGED << signature, pc >>
              /\ err' = sig.error
              /\ logOut' = logged({blindingFactor, pubkey[2]})
         ELSE /\ signature' = sig
              /\ pc' = "unblinded" /\ err' = "none"
              /\ logOut' = logged({blindingFactor, pubkey[2],
                                   PolyMul(blindingFactor, pubkey[2]),
                                   blindSignature, sig})
    /\ lastOp' = "computeSignature"
    /\ UNCHANGED << paramVars, a, b, s, e, keygens, honest, pubkey, clientVars,
                    e1, blindSignature, verifyVars, enable_logging, polyVars >>

\* the first half of a polynomial's coefficients as a polynomial of its own
truncated(p) == Poly([i \in 0..((p.ring_dim \div 2) - 1) |-> p.coeffs[i]],
                     p.ring_dim \div 2, p.modulus)

\* signatures a caller hands to verify: the one it computed and, while the
\* key it read is current, polynomials it builds with the public Polynomial
\* constructors
candidates ==
    (IF honest THEN { Poly(<< >>, 0, modulus), ZeroPoly(ring_dim_n, modulus),
                      ZeroPoly(ring_dim_n + 1, modulus) }
     ELSE {})
    \cup (IF pc = "unblinded" /\ honest THEN { truncated(signature) } ELSE {})
    \cup (IF pc = "unblinded" THEN { signature } ELSE {})

\* verify(message, signature)
verify ==
    /\ pc \in {"constructed", "havekey", "unblinded"}
    /\ explored(ring_dim_n, modulus)
    /\ \E m \in {secret, <<222, 173, 190, 238>>}, sig \in candidates :
         \E out \in verifyOutcomes(m, sig, s, ring_dim_n, modulus) :
           /\ vmsg' = m /\ vsig' = sig
           /\ z' = hashToPolynomial(m, ring_dim_n, modulus)
           /\ IF IsError(out)
              THEN /\ err' = out.error /\ verified' = FALSE
                   /\ logOut' = logged({sig, hashToPolynomial(m, ring_dim_n, modulus), s})
              ELSE /\ err' = "none" /\ verified' = out.result
                   /\ logOut' =
                        IF enable_logging
                        THEN Only({ logged({sig, hashed, s, expected, polySignal(sig),
                                            polySignal(expected)}) :
                                      hashed \in { hashToPolynomial(m, ring_dim_n, modulus) },
                                      expected \in { PolyMul(s,
                                          hashToPolynomial(m, ring_dim_n, modulus)) } })
                        ELSE {}
    /\ pc' = "verified"
    /\ lastOp' = "verify"
    /\ UNCHANGED << paramVars, a, b, s, e, keygens, honest, pubkey, clientVars,
                    e1, blindSignature, signature, enable_logging, polyVars >>

\* positions of the calling program at which it makes a query; a query
\* assigns nothing of the signer, and the program is followed no further
\* after one
queryPoints == {"constructed", "keyed"}

\* getParameters()
queryParameters ==
    /\ pc \in queryPoints
    /\ currentParams' = getParameters(ring_dim_n, modulus, gaussian_stddev)
    /\ pc' = "queried" /\ err' = "none" /\ lastOp' = "getParameters"
    /\ logOut' = {}
    /\ UNCHANGED << level, ring_dim_n, modulus, gaussian_stddev, diagnostics,
                    callVars,
                    hashResult, hashBlocks, a, b, s, e, keygens, honest, pubkey,
                    clientVars, e1, blindSignature, signature, verifyVars,
                    enable_logging, polyVars >>

Messages == Secrets \cup { <<222, 173, 190, 238>> }

\* hashToPolynomial(message), called directly
hashMessage ==
    /\ pc \in queryPoints
    /\ \E m \in Messages :
         \E call \in { hashCall(m, ring_dim_n, modulus) } :
           /\ hashResult' = call.result /\ hashBlocks' = call.blocks
           /\ vmsg' = m
           /\ logOut' = logged({call.result})
    /\ pc' = "queried" /\ err' = "none" /\ lastOp' = "hashToPolynomial"
    /\ UNCHANGED << level, ring_dim_n, modulus, gaussian_stddev, diagnostics,
                    callVars,
                    currentParams, a, b, s, e, keygens, honest, pubkey,
                    clientVars, e1,
                    blindSignature, signature, vsig, verified, z,
                    enable_logging, polyVars >>

(***************************************************************************)
(* Direct calls of Polynomial::operator* and of NTT::forward / inverse, as *)
(* the unit tests make them, on operands built by the caller.              *)
(***************************************************************************)
\* (n, q) of the rings the calls are made in
DirectRings == { rq \in { <<4, 17>>, <<8, 7681>>, <<32, 7681>> } : rq[1] <= MaxNttDim }

\* reduced coefficient vectors of length n: 0, 1, x, x^(n-1), (0, 1, ..., n-1),
\* (1, 2, ..., n), a spread of residues, and q - 1 everywhere
operands(n, q) ==
    { Poly([i \in 0..(n - 1) |-> 0], n, q),
      Poly([i \in 0..(n - 1) |-> IF i = 0 THEN 1 ELSE 0], n, q),
      Poly([i \in 0..(n - 1) |-> IF i = 1 THEN 1 ELSE 0], n, q),
      Poly([i \in 0..(n - 1) |-> IF i = n - 1 THEN 1 ELSE 0], n, q),
      Poly([i \in 0..(n - 1) |-> i % q], n, q),
      Poly([i \in 0..(n - 1) |-> (i + 1) % q], n, q),
      Poly([i \in 0..(n - 1) |-> (1000 * i + 3) % q], n, q),
      Poly([i \in 0..(n - 1) |-> q - 1], n, q) }

\* f * g
multiply ==
    /\ pc = "start" /\ pop = "none"
    /\ \E rq \in DirectRings :
         \E f \in operands(rq[1], rq[2]), g \in operands(rq[1], rq[2]) :
           \E result \in { PolyMul(f, g) } :
             /\ pf' = f /\ pg' = g
             /\ IF IsError(result)
                THEN /\ pr' = NoPoly /\ err' = result.error
                     /\ logOut' = logged({f, g})
                ELSE /\ pr' = result /\ err' = "none"
                     /\ logOut' = logged({f, g, result})
    /\ pop' = "multiply" /\ lastOp' = "multiply"
    /\ UNCHANGED << pc, paramVars, a, b, s, e, keygens, honest, pubkey,
                    clientVars, e1, blindSignature, signature, verifyVars,
                    enable_logging >>

\* NTT ntt(n, q); ntt.forward(vec); ntt.inverse(vec);
roundtrip ==
    /\ pc = "start" /\ pop = "none"
    /\ \E rq \in DirectRings :
         \E f \in operands(rq[1], rq[2]) :
           \E ctx \in { NTT(rq[1], rq[2]) } :
             /\ pf' = f /\ pg' = NoPoly
             /\ IF IsError(ctx)
                THEN pr' = NoPoly /\ err' = ctx.error
                ELSE \E transformed \in { forward(ctx, f.coeffs) } :
                       /\ pr' = Poly(inverse(ctx, transformed), rq[1], rq[2])
                       /\ err' = "none"
    /\ pop' = "roundtrip" /\ lastOp' = "roundtrip"
    /\ logOut' = {}
    /\ UNCHANGED << pc, paramVars, a, b, s, e, keygens, honest, pubkey,
                    clientVars, e1, blindSignature, signature, verifyVars,
                    enable_logging >>

(***************************************************************************)
(* Direct calls of the other public operations of Polynomial.  The vectors *)
(* handed to the constructor and to setCoefficients need not be reduced;   *)
(* operator-() and polySignal are applied to reduced operands, on which    *)
(* their unsigned differences do not wrap.                                 *)
(***************************************************************************)
\* coefficient vectors of length n with entries at and above q
rawVectors(n, q) ==
    { Poly([i \in 0..(n - 1) |-> IF i = 0 THEN q + 1 ELSE IF i = 1 THEN 2 * q
                                  ELSE IF i = n - 1 THEN q - 1 ELSE 0], n, q),
      Poly([i \in 0..(n - 1) |-> q + (i % 2)], n, q) }

\* a few of the reduced vectors
someOperands(n, q) ==
    { Poly([i \in 0..(n - 1) |-> IF i = 0 THEN 1 ELSE 0], n, q),
      Poly([i \in 0..(n - 1) |-> (i + 1) % q], n, q),
      Poly([i \in 0..(n - 1) |-> q - 1], n, q) }

\* the part every direct call has in common: operands, result or exception,
\* and the polynomials the call writes to the log
direct(op, f, g, result, shown) ==
    /\ pf' = f /\ pg' = g
    /\ IF IsError(result)
       THEN pr' = NoPoly /\ err' = result.error
       ELSE pr' = result /\ err' = "none"
    /\ logOut' = logged(shown)
    /\ pop' = op /\ lastOp' = op
    /\ UNCHANGED << pc, paramVars, a, b, s, e, keygens, honest, pubkey,
                    clientVars, e1, blindSignature, signature, verifyVars,
                    enable_logging >>

\* Polynomial(coefficients, q)
construct ==
    /\ pc = "start" /\ pop = "none"
    /\ \E rq \in DirectRings :
      \E v \in someOperands(rq[1], rq[2]) \cup rawVectors(rq[1], rq[2]) :
        direct("construct", v, NoPoly, Poly(v.coeffs, rq[1], rq[2]), {v})

\* p[idx] = value
assign ==
    /\ pc = "start" /\ pop = "none"
    /\ \E rq \in DirectRings :
      \E f \in someOperands(rq[1], rq[2]), idx \in {0, rq[1] - 1},
         value \in {0, rq[2] - 1, rq[2], rq[2] + 5} :
        direct("assign", f, NoPoly, setElement(f, idx, value), {})

\* p.setCoefficients(new_coeffs): the size is checked first
replace ==
    /\ pc = "start" /\ pop = "none"
    /\ \E rq \in DirectRings :
      \E f \in someOperands(rq[1], rq[2]),
         v \in someOperands(rq[1], rq[2]) \cup rawVectors(rq[1], rq[2])
               \cup someOperands(rq[1] - 1, rq[2]) :
        direct("setCoefficients", f, v,
               IF v.ring_dim # f.ring_dim THEN InvalidArgument
               ELSE setCoefficients(f, v.coeffs),
               IF v.ring_dim # f.ring_dim THEN {}
               ELSE {setCoefficients(f, v.coeffs)})

\* f + g
add ==
    /\ pc = "start" /\ pop = "none"
    /\ \E rq \in DirectRings :
      \E f \in operands(rq[1], rq[2]) \cup rawVectors(rq[1], rq[2]),
         g \in operands(rq[1], rq[2]) \cup rawVectors(rq[1], rq[2]) :
        direct("add", f, g, PolyAdd(f, g), {f, g, PolyAdd(f, g)})

\* f - g
subtract ==
    /\ pc = "start" /\ pop = "none"
    /\ \E rq \in DirectRings :
      \E f \in operands(rq[1], rq[2]) \cup rawVectors(rq[1], rq[2]),
         g \in operands(rq[1], rq[2]) \cup rawVectors(rq[1], rq[2]) :
        direct("subtract", f, g, PolySub(f, g), {f, g, PolySub(f, g)})

\* -f
negate ==
    /\ pc = "start" /\ pop = "none"
    /\ \E rq \in DirectRings :
      \E f \in operands(rq[1], rq[2]) :
        direct("negate", f, NoPoly, PolyNeg(f), {f, PolyNeg(f)})

\* f * scalar
scale ==
    /\ pc = "start" /\ pop = "none"
    /\ \E rq \in DirectRings :
      \E f \in operands(rq[1], rq[2]) \cup rawVectors(rq[1], rq[2]),
         scalar \in {0, 5, rq[2] + 1} :
        direct("scale", f, NoPoly, PolyScale(f, scalar), {f, PolyScale(f, scalar)})

\* moduli polySignal is applied under: 2, a power of two, and odd primes
SignalModuli == {2, 16, 17, 7681}

\* vectors of eight consecutive residues around 0, q/4, q/2, 3q/4 and q - 1
windows(q) ==
    { Poly([i \in 0..7 |-> (base + i) % q], 8, q) :
        base \in { 0, (q \div 4 + q - 4) % q, (q \div 2 + q - 4) % q,
                   ((3 * q) \div 4 + q - 4) % q, (2 * q - 8) % q } }

\* the windows of every modulus, and the vector of the rounding unit test
signalInputs ==
    UNION { windows(q) : q \in SignalModuli }
    \cup { Poly([i \in 0..7 |-> <<0, 4, 5, 7, 8, 9, 13, 16>>[i + 1]], 8, 17) }

\* f.polySignal()
signal ==
    /\ pc = "start" /\ pop = "none"
    /\ \E f \in signalInputs :
        direct("polySignal", f, NoPoly, polySignal(f), {})

\* pairs of operands that differ in ring dimension, in modulus, or in both
mismatchedPairs ==
    { fg \in (someOperands(8, 7681) \cup someOperands(4, 17))
             \X (someOperands(8, 7681) \cup someOperands(4, 7681)
                 \cup someOperands(8, 17) \cup someOperands(4, 18)
                 \cup someOperands(2, 17)) :
        fg[1].ring_dim # fg[2].ring_dim \/ fg[1].modulus # fg[2].modulus }

\* f + g, f - g and f * g on operands of different rings
mismatched ==
    /\ pc = "start" /\ pop = "none"
    /\ \E fg \in mismatchedPairs, op \in {"add", "subtract", "multiply"} :
        direct(op \o "_mismatched", fg[1], fg[2],
               CASE op = "add" -> PolyAdd(fg[1], fg[2])
                 [] op = "subtract" -> PolySub(fg[1], fg[2])
                 [] op = "multiply" -> PolyMul(fg[1], fg[2]),
               {})

Next ==
    \/ EnableLogging
    \/ \E lvl \in Levels : Construct(lvl)
    \/ \E n \in ExplicitDims, q \in ExplicitModuli, sigma10 \in ExplicitSigmas :
         ConstructExplicit(n, q, sigma10)
    \/ generateKeys
    \/ getPublicKey
    \/ computeBlindedMessage
    \/ blindSign
    \/ unblind
    \/ verify
    \/ queryParameters
    \/ hashMessage
    \/ multiply
    \/ roundtrip
    \/ construct
    \/ assign
    \/ replace
    \/ add
    \/ subtract
    \/ negate
    \/ scale
    \/ signal
    \/ mismatched

Spec == Init /\ [][Next]_vars

(***************************************************************************)
(* Direct calls of the modular arithmetic, of the NTT constructor and of   *)
(* the Polynomial operations at the full width of uint64_t, one call per   *)
(* behaviour.                                                              *)
(***************************************************************************)
\* everything but the record of the call
signerState == << pc, err, lastOp, level, ring_dim_n, modulus, gaussian_stddev,
                 diagnostics, queryVars, running, accesses, a, b, s, e, keygens,
                 honest, pubkey, clientVars, e1, blindSignature, signature,
                 verifyVars, enable_logging, logOut, polyVars >>

\* the record of a call that returned value
returned(op, x, y, m, value) ==
    [op |-> op, x |-> x, y |-> y, m |-> m, raised |-> FALSE, result |-> value]

\* the record of a call that may have raised: out is the value or the error
outcome(op, x, y, m, out) ==
    IF IsError(out)
    THEN [op |-> op, x |-> x, y |-> y, m |-> m, raised |-> TRUE, result |-> out.error]
    ELSE returned(op, x, y, m, out)

SmallModuli == {2, 3, 9, 12, 16, 17, 7681}

\* residues of m: the ends, the middle, and 1
residues(m) == {0, 1, m \div 2, (m + 1) \div 2, m - 1}

\* NTT::modAdd(x, y, m)
modAddCall ==
    /\ pc = "start" /\ arith = NoCall
    /\ \E m \in SmallModuli : \E x \in residues(m), y \in residues(m) :
         arith' = returned("modAdd", x, y, m, modAdd(x, y, m))
    /\ UNCHANGED signerState

\* NTT::modSub(x, y, m)
modSubCall ==
    /\ pc = "start" /\ arith = NoCall
    /\ \E m \in SmallModuli : \E x \in residues(m), y \in residues(m) :
         arith' = returned("modSub", x, y, m, modSub(x, y, m))
    /\ UNCHANGED signerState

\* NTT::modPow(base, exp, m)
modPowCall ==
    /\ pc = "start" /\ arith = NoCall
    /\ \E m \in SmallModuli : \E base \in residues(m), exp \in {0, 1, 2, 5, m - 1} :
         arith' = returned("modPow", base, exp, m, modPow(base, exp, m))
    /\ UNCHANGED signerState

\* moduli below 2^63 as uint64_t: 7681, 2^32 + 15, 2^62 + 135, 2^63 - 25
WideModuli ==
    { u64(7681),
      <<15, 0, 0, 0, 1, 0, 0, 0>>,
      <<135, 0, 0, 0, 0, 0, 0, 64>>,
      <<231, 255, 255, 255, 255, 255, 255, 127>> }

\* values of uint64_t: 0, 1, 3, 7680, 2^16, 2^30, 2^32, 2^32 + 14, 2^40,
\* 2^62, 2^63 - 26
WideValues ==
    { u64(0), u64(1), u64(3), u64(7680), u64(65536), u64(1073741824),
      <<0, 0, 0, 0, 1, 0, 0, 0>>, <<14, 0, 0, 0, 1, 0, 0, 0>>,
      <<0, 0, 0, 0, 0, 1, 0, 0>>, <<0, 0, 0, 0, 0, 0, 0, 64>>,
      <<230, 255, 255, 255, 255, 255, 255, 127>> }

\* the values below m
reduced(m) == { x \in WideValues : ~geq(x, m, 8) }

\* NTT::modMul(x, y, m) on reduced operands
modMulCall ==
    /\ pc = "start" /\ arith = NoCall
    /\ \E m \in WideModuli : \E x \in reduced(m), y \in reduced(m) :
         arith' = returned("modMul", x, y, m, modMul_u64(x, y, m))
    /\ UNCHANGED signerState

\* Polynomial(std::vector<uint64_t>{x}, m) * y: the one coefficient of the
\* result is (coeffs[0] * scalar) % modulus
scaleWide ==
    /\ pc = "start" /\ arith = NoCall
    /\ \E m \in WideModuli : \E x \in reduced(m), y \in reduced(m) :
         arith' = returned("scale", x, y, m, modMul_u64(x, y, m))
    /\ UNCHANGED signerState

\* values handed to setCoefficients: 16, q + 1 for q = 7681, 2^32, 2^63 - 26,
\* 2^63, 2^64 - 2 and 2^64 - 1
RawValues ==
    { u64(16), u64(7682), <<0, 0, 0, 0, 1, 0, 0, 0>>,
      <<230, 255, 255, 255, 255, 255, 255, 127>>,
      <<0, 0, 0, 0, 0, 0, 0, 128>>,
      <<254, 255, 255, 255, 255, 255, 255, 255>>,
      <<255, 255, 255, 255, 255, 255, 255, 255>> }

\* Polynomial p(2, q) holding (1, 2); p.setCoefficients(v) for vectors v of
\* one, two and three values: x is the old coefficient vector, y is v, and
\* the result is the coefficient vector after the call
replaceWide ==
    /\ pc = "start" /\ arith = NoCall
    /\ \E q \in {17, 7681}, v0 \in RawValues, v1 \in {u64(0), u64(7682)},
          len \in 1..3 :
         \E v \in { SubSeq(<< v0, v1, v0 >>, 1, len) } :
           arith' = IF Len(v) # 2
                    THEN [op |-> "setCoefficients", x |-> << u64(1), u64(2) >>,
                          y |-> v, m |-> q, raised |-> TRUE,
                          result |-> << u64(1), u64(2) >>]
                    ELSE returned("setCoefficients", << u64(1), u64(2) >>, v, q,
                                  [i \in 1..2 |-> mod_u64(v[i], u64(q))])
    /\ UNCHANGED signerState

\* NTT::modInverse(x, m) for small m: it throws when the loop ends with r > 1
modInverseCall ==
    /\ pc = "start" /\ arith = NoCall
    /\ \E m \in SmallModuli :
         \E x \in residues(m) \cup {2, 3, 4, 6, m, m + 1, 2 * m + 3} :
           \E tr \in { egcd(0, 1, m, x % m) } :
             arith' = IF tr[2] > 1
                      THEN outcome("modInverse", x, 0, m, NoInverse)
                      ELSE returned("modInverse", x, 0, m, modInverse(x, m))
    /\ UNCHANGED signerState

\* how far below 2^64 the large moduli lie: 2^64 - 1, 2^64 - 59 (a prime),
\* 2^64 - 189
TopGaps == {1, 59, 189}

\* NTT::modInverse(x, 2^64 - k): the field m holds -k, the modulus as int64_t
modInverseTop ==
    /\ pc = "start" /\ arith = NoCall
    /\ \E k \in TopGaps, x \in 1..7 :
         \E out \in { modInverse_top(x, k) } :
           arith' = IF IsError(out) THEN outcome("modInverse", x, 0, -k, out)
                    ELSE returned("modInverse", x, 0, -k, out.value)
    /\ UNCHANGED signerState

NttDims == {0, 1, 3, 4, 8, 16, 32}
NttModuli == {0, 1, 2, 17, 97, 7681, 12289}

\* NTT ntt(n, q, negacyclic): the three checks and the table lookup come
\* first, and a context that is not negacyclic is refused after the first two
newNTT ==
    /\ pc = "start" /\ arith = NoCall
    /\ \E n \in NttDims, q \in NttModuli, negacyclic \in BOOLEAN :
         \E ctx \in { NTT(n, q) } :
           arith' = outcome("NTT", n, negacyclic, q,
                            IF negacyclic THEN ctx ELSE InvalidArgument)
    /\ UNCHANGED signerState

ArithNext ==
    \/ modAddCall
    \/ modSubCall
    \/ modPowCall
    \/ modMulCall
    \/ scaleWide
    \/ replaceWide
    \/ modInverseCall
    \/ modInverseTop
    \/ newNTT

ArithSpec == Init /\ [][ArithNext]_vars

(***************************************************************************)
(* Two signers, each used by one thread.  A thread runs one operation of   *)
(* its signer statement by statement, and every statement records the      *)
(* locations it reads and writes.                                           *)
(***************************************************************************)
\* everything but the threads, their accesses and the logger flag
concState == << pc, err, lastOp, level, ring_dim_n, modulus, gaussian_stddev,
               diagnostics, queryVars, arith, a, b, s, e, keygens, honest,
               pubkey, clientVars, e1, blindSignature, signature, verifyVars,
               logOut, polyVars >>

\* a call of Logger::log
Log == [kind |-> "log", member |-> "none"]
\* a read and a write of a member of the thread's own signer
Reads(member) == [kind |-> "read", member |-> member]
Writes(member) == [kind |-> "write", member |-> member]

\* sampleUniform and sampleGaussian read n and q and build a Polynomial,
\* whose constructor logs
sampleBody == << Reads("ring_dim_n"), Reads("modulus"), Log >>

\* generateKeys: a = sampleUniform(); s = sampleGaussian(sigma); e; b = a*s + e
generateKeysBody ==
    << Log >> \o sampleBody \o << Writes("a"), Reads("gaussian_stddev") >>
       \o sampleBody \o << Writes("s"), Log, Reads("gaussian_stddev") >>
       \o sampleBody \o << Log, Reads("a"), Reads("s"), Log, Writes("b"),
                           Reads("a"), Log, Reads("b"), Log, Reads("s"), Log >>

\* blindSign: e1 = sampleGaussian(sigma); signature = s * blinded + e1
blindSignBody ==
    << Log, Log, Reads("gaussian_stddev") >> \o sampleBody
       \o << Reads("s"), Log, Log >>

\* verify: z = hashToPolynomial(message); expected = s * z; the comparison
verifyBody ==
    << Log, Log, Log, Reads("ring_dim_n"), Reads("modulus"), Log, Log,
       Reads("s"), Log, Log, Log, Log, Log >>

ThreadOps == {"generateKeys", "blindSign", "verify"}

body(op) ==
    CASE op = "generateKeys" -> generateKeysBody
      [] op = "blindSign"    -> blindSignBody
      [] op = "verify"       -> verifyBody

\* a location: a member of the signer of thread owner, or, with owner 0, a
\* static member of Logger or the stream that Logger::out points to
location(owner, member) == [owner |-> owner, member |-> member]

access(t, kind, loc) == [thread |-> t, kind |-> kind, loc |-> loc]

\* the accesses of one statement run by thread t: Logger::log reads
\* enable_logging and, when it is set, reads out and writes to *out
touched(t, stmt) ==
    IF stmt.kind = "log"
    THEN { access(t, "read", location(0, "Logger::enable_logging")) } \cup
         ( IF enable_logging
           THEN { access(t, "read", location(0, "Logger::out")),
                  access(t, "write", location(0, "*Logger::out")) }
           ELSE {} )
    ELSE { access(t, stmt.kind, location(t, stmt.member)) }

\* Logger::enable_logging = true in the main thread, before the threads start
setLogging ==
    /\ pc = "start" /\ pop = "none" /\ arith = NoCall
    /\ \A t \in Threads : running[t] = Idle
    /\ ~enable_logging
    /\ enable_logging' = TRUE
    /\ UNCHANGED << concState, running, accesses >>

\* std::thread(op, signer_t): thread t starts an operation of its own signer
launch ==
    /\ pc = "start" /\ pop = "none" /\ arith = NoCall
    /\ \E t \in Threads, op \in ThreadOps :
         /\ running[t] = Idle
         /\ running' = [running EXCEPT ![t] = [op |-> op, at |-> 1]]
    /\ UNCHANGED << concState, accesses, enable_logging >>

\* thread t runs its next statement
step ==
    /\ pc = "start" /\ pop = "none" /\ arith = NoCall
    /\ \E t \in Threads :
         /\ running[t].op \in ThreadOps
         /\ running[t].at <= Len(body(running[t].op))
         /\ accesses' = accesses \cup touched(t, body(running[t].op)[running[t].at])
         /\ running' = [running EXCEPT ![t].at = @ + 1]
    /\ UNCHANGED << concState, enable_logging >>

ConcNext ==
    \/ setLogging
    \/ launch
    \/ step

ConcSpec == Init /\ [][ConcNext]_vars

(***************************************************************************)
(* Properties.                                                             *)
(***************************************************************************)
supported(n, q) == ~IsError(NTT(n, q))

\* representative of x in (-q/2, q/2]
centered(x, q) == IF 2 * x > q THEN x - q ELSE x

abs(x) == IF x < 0 THEN -x ELSE x

\* the verify call just made was given the signature the run computed for
\* the message it was blinded from, under the key that signed it
honestVerify ==
    /\ pc = "verified" /\ lastOp = "verify"
    /\ honest /\ keygens = 1
    /\ vsig = signature /\ vmsg = secret
    /\ signature # NoPoly

\* C1: at every named security level the honest run (generateKeys,
\* getPublicKey, computeBlindedMessage, blindSign, computeSignature, verify)
\* goes through without an invalid-parameter exception and its final verify
\* returns true.
C1_ProtocolCompletes ==
    level \in Levels =>
        /\ err # "invalid_argument"
        /\ honestVerify /\ err = "none" => verified

\* C2: the (n, q) of every named level satisfies q = 1 mod 2n and has an
\* entry in the twiddle tables, so that building the NTT context for a
\* constructed signer does not raise.
C2_CatalogSupported ==
    (pc # "start" /\ level \in Levels) =>
        /\ (modulus - 1) % (2 * ring_dim_n) = 0
        /\ getPsiTables(ring_dim_n, modulus) # NoTable
        /\ supported(ring_dim_n, modulus)

\* the signal of sig equals the signal of s * H(m) at each of the n positions
signalsAgree(m, sig, ps, n, q) ==
    LET expected_signal == polySignal(PolyMul(ps, hashToPolynomial(m, n, q)))
        actual_signal == polySignal(sig)
    IN  \A i \in 0..(n - 1) :
            /\ i < actual_signal.ring_dim
            /\ actual_signal.coeffs[i] = expected_signal.coeffs[i]

\* C3: in a supported ring, for a signature of at most n coefficients,
\* verify(m, sig) returns true exactly when the signals of s * H(m) and of
\* sig agree at all n coefficient positions, and it does not raise.
C3_VerifyIffSignalsAgree ==
    (lastOp = "verify" /\ supported(ring_dim_n, modulus)
        /\ vsig.ring_dim <= ring_dim_n) =>
        /\ err = "none"
        /\ verified <=> signalsAgree(vmsg, vsig, s, ring_dim_n, modulus)

\* e1 - r * e of the run: what the unblinded signature carries on top of s * Y
residual == PolySub(e1, PolyMul(blindingFactor, e))

\* every coefficient of p, centered at zero, is below q/4 in absolute value
belowQuarter(p) ==
    \A i \in 0..(p.ring_dim - 1) : 4 * abs(centered(p.coeffs[i], p.modulus)) < p.modulus

\* adding d to x does not move x to the other rounding anchor
sameAnchor(x, d, q) == signalOf(x, q) = signalOf((x + d) % q, q)

\* C4 (as stated): for the honestly produced signature, verify returns true
\* exactly when every coefficient of e1 - r*e, centered at zero, is strictly
\* below q/4 in absolute value.
C4_QuarterBound ==
    (honestVerify /\ err = "none") => (verified <=> belowQuarter(residual))

\* C4 (amended): for the honestly produced signature, verify returns true
\* exactly when, at every index i, adding (e1 - r*e)_i to (s*Y)_i leaves the
\* coefficient at the same rounding anchor (0 or floor(q/2)).
C4_SameAnchor ==
    (honestVerify /\ err = "none") =>
        LET expected == PolyMul(s, Y)
        IN  verified <=> \A i \in 0..(ring_dim_n - 1) :
                sameAnchor(expected.coeffs[i], residual.coeffs[i], modulus)

\* an honest verification that fails although the residual is below q/4
C4_Witness ==
    /\ honestVerify /\ err = "none"
    /\ ~verified /\ belowQuarter(residual)
    /\ residual # ZeroPoly(ring_dim_n, modulus)

\* C5: with b = a*s + e and the blind signature s*(Y + a*r) + e1, the value
\* computeSignature returns is s*Y + e1 - r*e at every coefficient, all
\* products being Polynomial::operator*.
C5_UnblindIdentity ==
    (lastOp = "computeSignature" /\ err = "none"
        /\ pubkey[2] = publicB(a, s, e)
        /\ blindSignature = blindSignOf(s, blindOf(Y, a, blindingFactor), e1)) =>
        signature = PolySub(PolyAdd(PolyMul(s, Y), e1), PolyMul(blindingFactor, e))

\* an unblinding has returned in a run whose r, e and Y are all non-zero
C5_Witness ==
    /\ lastOp = "computeSignature" /\ err = "none" /\ pc = "unblinded"
    /\ pubkey[2] = publicB(a, s, e)
    /\ blindSignature = blindSignOf(s, blindOf(Y, a, blindingFactor), e1)
    /\ PolyMul(blindingFactor, e) # ZeroPoly(ring_dim_n, modulus)
    /\ Y # ZeroPoly(ring_dim_n, modulus)

\* C6: in a supported ring operator* returns the schoolbook product reduced
\* modulo x^n + 1 and q.
C6_MatchesSchoolbook ==
    (pop = "multiply" /\ supported(pf.ring_dim, pf.modulus)) =>
        /\ err = "none"
        /\ pr = Schoolbook(pf, pg)

\* C7: in a supported ring inverse applied after forward returns the vector
\* it started from.
C7_Roundtrip ==
    (pop = "roundtrip" /\ supported(pf.ring_dim, pf.modulus)) =>
        /\ err = "none"
        /\ pr = pf

\* a round trip of the ascending vector in the ring of dimension 32
C7_Witness ==
    /\ pop = "roundtrip" /\ err = "none"
    /\ pf.ring_dim = 32
    /\ pf.coeffs[0] = 0 /\ pf.coeffs[1] = 1 /\ pf.coeffs[31] = 31
    /\ pr = pf

\* C8: in Z_17[x]/(x^4 + 1) a product returns a value, f*1 = 1*f = f,
\* f*0 = 0*f = 0, and x * x^3 = x^3 * x = (16, 0, 0, 0).
C8_TinyRing ==
    (pop = "multiply" /\ pf.ring_dim = 4 /\ pf.modulus = 17) =>
        LET one == Poly([i \in 0..3 |-> IF i = 0 THEN 1 ELSE 0], 4, 17)
            zero == ZeroPoly(4, 17)
            x == Poly([i \in 0..3 |-> IF i = 1 THEN 1 ELSE 0], 4, 17)
            x3 == Poly([i \in 0..3 |-> IF i = 3 THEN 1 ELSE 0], 4, 17)
        IN  /\ err = "none"
            /\ pg = one => pr = pf
            /\ pf = one => pr = pg
            /\ (pf = zero \/ pg = zero) => pr = zero
            /\ ({pf, pg} = {x, x3}) =>
                   pr = Poly([i \in 0..3 |-> IF i = 0 THEN 16 ELSE 0], 4, 17)

signerOps == {"generateKeys", "computeBlindedMessage", "blindSign",
              "computeSignature", "verify"}

\* C9: once a key exists, no call writes the coefficients of s to the log
\* stream.
C9_SecretNotLogged ==
    (keygens > 0 /\ lastOp \in signerOps) => s.coeffs \notin logOut

\* C10: a signer call that raises in a supported ring leaves a, b, s, n, q
\* and sigma as they were, and the stored key is still all-zero or still
\* satisfies b = a*s + e for the e of the last generateKeys that returned.
C10_Step ==
    (err' # "none" /\ lastOp' \in signerOps
        /\ supported(ring_dim_n, modulus)) =>
        /\ << a, b, s, ring_dim_n, modulus, gaussian_stddev >>'
             = << a, b, s, ring_dim_n, modulus, gaussian_stddev >>
        /\ IF keygens' = 0
           THEN a' = ZeroPoly(ring_dim_n, modulus) /\ b' = a' /\ s' = a'
           ELSE b' = publicB(a', s', e')

C10_FailureKeepsState == [][C10_Step]_vars

\* the signer holds a key: a generateKeys call has returned
Ready == keygens > 0

\* one call seen from the session state machine NoKey -> Ready
C11_Step ==
    /\ (~Ready /\ Ready') => (lastOp' = "generateKeys" /\ err' = "none")
    /\ Ready => Ready'
    /\ (~Ready /\ lastOp' = "blindSign") =>
           (err' # "none" /\ blindSignature' = blindSignature)
    /\ (~Ready /\ lastOp' = "verify") => ~verified'

\* C11: a signer starts without a key and becomes Ready only through a
\* generateKeys call that returns; while it has no key, blindSign issues no
\* blind signature and verify accepts no signature; once Ready it stays Ready
\* under every later call.
C11_ReadyOnly == [][C11_Step]_vars

\* the verify call just made was given the signature the run computed for
\* its message, after a second generateKeys has replaced the key
rekeyedVerify ==
    /\ pc = "verified" /\ lastOp = "verify"
    /\ ~honest /\ keygens = 2
    /\ vsig = signature /\ vmsg = secret

\* the blind signature of the run is the one secret ps issues
signedUnder(ps) == blindSignature = blindSignOf(ps, blindedMessage, e1)

\* C12 (as stated): when generateKeys has been called again between the
\* issuing of a signature and its verification, verify(m, sig) returns false.
C12_RekeyRejects ==
    (rekeyedVerify /\ err = "none") => ~verified

\* C12 (amended): on the re-keyed signer verify(m, sig) returns true exactly
\* when the signal of s' * H(m), s' being the new secret, equals the signal
\* of sig at every coefficient; otherwise it returns false.
C12_RekeySignal ==
    (rekeyedVerify /\ err = "none") =>
        (verified <=> signalsAgree(vmsg, vsig, s, ring_dim_n, modulus))

\* a signature issued under another secret is accepted after the re-keying
C12_Witness ==
    /\ rekeyedVerify /\ err = "none"
    /\ ~signedUnder(s)
    /\ a # pubkey[1]
    /\ verified

\* the verify call just made was given the signature the honest run computed,
\* together with a message other than the one it was computed for
otherMessageVerify ==
    /\ pc = "verified" /\ lastOp = "verify"
    /\ honest /\ keygens = 1
    /\ vsig = signature /\ signature # NoPoly
    /\ vmsg # secret

\* C13: after an honest run on m has produced sig, verify(m', sig) returns
\* false for every message m' other than m, such as 0xDEADBEEE against
\* 0xDEADBEEF.
C13_OtherMessageRejected ==
    (otherMessageVerify /\ err = "none") => ~verified

\* C13 (amended): for the signature sig of an honest run on m and a message
\* m' other than m, verify(m', sig) returns true exactly when the signal of
\* s * H(m') equals the signal of sig at every coefficient.
C13_OtherMessageSignal ==
    (otherMessageVerify /\ err = "none") =>
        (verified <=> signalsAgree(vmsg, vsig, s, ring_dim_n, modulus))

\* the signature computed for 0xDEADBEEF is accepted for 0xDEADBEEE
C13_Witness ==
    /\ otherMessageVerify /\ err = "none"
    /\ secret = <<222, 173, 190, 239>> /\ vmsg = <<222, 173, 190, 238>>
    /\ signedUnder(s)
    /\ verified

\* the documented record of each named level (sigma in tenths)
documented(lvl) ==
    CASE lvl = "TEST_TINY"  -> [n |-> 8, q |-> 7681, sigma10 |-> 30,
                                classical_bits |-> 4, quantum_bits |-> 2, is_secure |-> FALSE]
      [] lvl = "TEST_SMALL" -> [n |-> 32, q |-> 7681, sigma10 |-> 30,
                                classical_bits |-> 16, quantum_bits |-> 8, is_secure |-> FALSE]
      [] lvl = "KYBER512"   -> [n |-> 256, q |-> 7681, sigma10 |-> 30,
                                classical_bits |-> 128, quantum_bits |-> 64, is_secure |-> TRUE]
      [] lvl = "MODERATE"   -> [n |-> 512, q |-> 12289, sigma10 |-> 32,
                                classical_bits |-> 192, quantum_bits |-> 96, is_secure |-> TRUE]
      [] lvl = "HIGH"       -> [n |-> 1024, q |-> 18433, sigma10 |-> 32,
                                classical_bits |-> 256, quantum_bits |-> 128, is_secure |-> TRUE]

\* C14: for each named level getParameterSet returns the documented record
\* (n, q, sigma, classical bits, quantum bits, is_secure), and a signer built
\* from the level holds its n, q and sigma.
C14_CatalogRecords ==
    level \in Levels =>
        /\ getParameterSet(level) = documented(level)
        /\ ring_dim_n = documented(level).n
        /\ modulus = documented(level).q
        /\ gaussian_stddev = documented(level).sigma10

\* the ring of the signer satisfies what the validation is said to require
validRing(n, q) == isPowerOfTwo(n) /\ (q - 1) % (2 * n) = 0

\* C15: constructing a signer from explicit (n, q, sigma) raises a parameter
\* error whenever n is not a power of two or q is not 1 mod 2n; otherwise it
\* succeeds, insecure parameters and a noise ratio above 0.01 producing
\* diagnostics only.
C15_ExplicitValidation ==
    lastOp = "construct_explicit" =>
        IF validRing(ring_dim_n, modulus)
        THEN /\ err = "none" /\ pc = "constructed"
             /\ enable_logging =>
                  /\ "small_ring" \in diagnostics <=> ring_dim_n < 256
                  /\ "noise_ratio" \in diagnostics <=> gaussian_stddev * 10 > modulus
        ELSE err = "invalid_argument" /\ pc = "failed"

\* every coefficient of p is in 0..q-1
canonicalPoly(p) == \A i \in 0..(p.ring_dim - 1) : p.coeffs[i] \in 0..(p.modulus - 1)

polyOps == {"construct", "assign", "setCoefficients", "add", "subtract",
            "negate", "scale", "polySignal", "multiply"}

\* C16: every polynomial a public operation of Polynomial returns has all
\* its coefficients in [0, q); the constructor from a coefficient vector
\* stores each value reduced modulo q.
C16_CanonicalRange ==
    (pop \in polyOps /\ err = "none") =>
        /\ canonicalPoly(pr)
        /\ pop = "construct" =>
             \A i \in 0..(pr.ring_dim - 1) : pr.coeffs[i] = pf.coeffs[i] % pr.modulus

\* distance between x and y on the cycle of the residues modulo q
cyclicDistance(x, y, q) == min((x - y + q) % q, (y - x + q) % q)

\* the anchor nearer to x on the cycle, 0 when both are equally near
nearestAnchor(x, q) ==
    IF cyclicDistance(x, 0, q) <= cyclicDistance(x, q \div 2, q) THEN 0 ELSE q \div 2

\* C17: polySignal maps each coefficient x in [0, q) to the nearer of 0 and
\* floor(q/2) in the cyclic metric, a tie going to 0; for q = 17 it maps
\* 0, 4, 13, 16 to 0 and 5, 7, 8, 9 to 8.
C17_NearestAnchor ==
    pop = "polySignal" =>
        /\ err = "none"
        /\ pr.ring_dim = pf.ring_dim /\ pr.modulus = pf.modulus
        /\ \A i \in 0..(pf.ring_dim - 1) :
             /\ pr.coeffs[i] \in {0, pf.modulus \div 2}
             /\ pr.coeffs[i] = nearestAnchor(pf.coeffs[i], pf.modulus)
             /\ (pf.modulus = 17 /\ pf.coeffs[i] \in {0, 4, 13, 16}) => pr.coeffs[i] = 0
             /\ (pf.modulus = 17 /\ pf.coeffs[i] \in {5, 7, 8, 9}) => pr.coeffs[i] = 8

\* the vector of the rounding unit test has been rounded: it holds the tie 4
C17_Witness ==
    /\ pop = "polySignal" /\ err = "none"
    /\ pf.modulus = 17 /\ pf.coeffs[1] = 4 /\ pf.coeffs[2] = 5 /\ pf.coeffs[6] = 13
    /\ pr.coeffs[1] = 0 /\ pr.coeffs[2] = 8 /\ pr.coeffs[6] = 0

\* C18: adding, subtracting or multiplying two polynomials that differ in
\* ring dimension or in modulus raises invalid_argument, returns no result
\* and leaves both operands as they were handed in.
C18_MismatchRaises ==
    (pop \in {"add_mismatched", "subtract_mismatched", "multiply_mismatched"}
        /\ (pf.ring_dim # pg.ring_dim \/ pf.modulus # pg.modulus)) =>
        /\ err = "invalid_argument"
        /\ pr = NoPoly
        /\ pf \in someOperands(pf.ring_dim, pf.modulus)
        /\ pg \in someOperands(pg.ring_dim, pg.modulus)

\* a product of two operands of one dimension and different moduli, the
\* left one in a ring that supports products, has raised
C18_Witness ==
    /\ pop = "multiply_mismatched" /\ err = "invalid_argument"
    /\ pf.ring_dim = 8 /\ pg.ring_dim = 8
    /\ pf.modulus = 7681 /\ pg.modulus = 17
    /\ supported(pf.ring_dim, pf.modulus)

\* every coefficient of p is 0 or floor(q/2), q being the signer's modulus
binarySignal(p) ==
    /\ p.ring_dim = ring_dim_n /\ p.modulus = modulus
    /\ \A i \in 0..(p.ring_dim - 1) : p.coeffs[i] \in {0, modulus \div 2}

OnePoly(n, q) == Poly([i \in 0..(n - 1) |-> IF i = 0 THEN 1 ELSE 0], n, q)

\* the operands and the result of the last direct call are reduced
\* polynomials of a ring that supports products
inSupportedRing ==
    /\ err = "none" /\ supported(pf.ring_dim, pf.modulus)
    /\ canonicalPoly(pf) /\ (pg # NoPoly => canonicalPoly(pg))

\* f + g = g + f and (f + g) + h = f + (g + h)
additionLaws ==
    (pop = "add" /\ inSupportedRing) =>
        /\ pr = PolyAdd(pg, pf)
        /\ \A h \in someOperands(pf.ring_dim, pf.modulus) :
             PolyAdd(pr, h) = PolyAdd(pf, PolyAdd(pg, h))

\* f * (g + h) = f * g + f * h and f * 0 = 0
productLinearLaws ==
    (pop = "multiply" /\ inSupportedRing) =>
        /\ \A h \in someOperands(pf.ring_dim, pf.modulus) :
             PolyMul(pf, PolyAdd(pg, h)) = PolyAdd(pr, PolyMul(pf, h))
        /\ pg = ZeroPoly(pf.ring_dim, pf.modulus) => pr = pg

\* f * 1 = f
productUnitLaw ==
    (pop = "multiply" /\ inSupportedRing
        /\ pg = OnePoly(pf.ring_dim, pf.modulus)) => pr = pf

\* f - g = f + (-g), and -f has the coefficients (q - c) mod q
differenceLaws ==
    /\ (pop = "subtract" /\ inSupportedRing) => pr = PolyAdd(pf, PolyNeg(pg))
    /\ (pop = "negate" /\ inSupportedRing) =>
           \A i \in 0..(pf.ring_dim - 1) :
             pr.coeffs[i] = (pf.modulus - pf.coeffs[i]) % pf.modulus

\* C20: in every supported ring the operators obey the ring laws on reduced
\* polynomials: addition is commutative and associative, the product
\* distributes over addition, f * 1 = f, f * 0 = 0, f - g = f + (-g), and
\* -f has the coefficients (q - c) mod q.
C20_RingLaws ==
    /\ additionLaws
    /\ productLinearLaws
    /\ productUnitLaw
    /\ differenceLaws

\* C21: on a signer built from a named level, getParameters() returns the
\* catalog record of that level: n, q, sigma, classical_bits, quantum_bits
\* and is_secure are those of getParameterSet(level).
C21_ParametersOfLevel ==
    (lastOp = "getParameters" /\ level \in Levels) =>
        currentParams = getParameterSet(level)

\* C23: verify never accepts a signature whose ring dimension differs from
\* the signer's: it returns false or raises, also when the signature has
\* fewer coefficients than n or none at all.
C23_ShapeRejected ==
    (lastOp = "verify" /\ vsig.ring_dim # ring_dim_n) => ~verified

\* p is a polynomial of the signer's ring with every coefficient in [0, q)
inSignerRing(p) ==
    /\ p.ring_dim = ring_dim_n /\ p.modulus = modulus
    /\ DOMAIN p.coeffs = 0..(ring_dim_n - 1)
    /\ \A i \in 0..(ring_dim_n - 1) : p.coeffs[i] \in 0..(modulus - 1)

\* C24: in every state of a constructed signer the stored polynomials a, b
\* and s have ring dimension n, modulus q and all coefficients in [0, q),
\* (n, q) being the parameters the constructor fixed.
C24_StoredPolynomials ==
    pc \notin {"start", "failed"} =>
        inSignerRing(a) /\ inSignerRing(b) /\ inSignerRing(s)

\* the calls of a signer other than its constructors and generateKeys
frameOps == {"hashToPolynomial", "computeBlindedMessage", "blindSign",
             "computeSignature", "verify", "getPublicKey", "getParameters"}

\* a step of one of those calls leaves the key and the parameters as they
\* were, and a step on a constructed signer that changes the key is a step
\* of generateKeys
C25_Step ==
    /\ lastOp' \in frameOps =>
         /\ a' = a /\ b' = b /\ s' = s
         /\ ring_dim_n' = ring_dim_n /\ modulus' = modulus
         /\ gaussian_stddev' = gaussian_stddev
    /\ (pc # "start" /\ << a, b, s >>' # << a, b, s >>) =>
         lastOp' = "generateKeys"

\* C25: hashToPolynomial, computeBlindedMessage, blindSign, computeSignature,
\* verify, getPublicKey and getParameters leave the key (a, b, s) and the
\* parameters (n, q, sigma) unchanged whether they return or raise; only
\* generateKeys changes the key.
C25_KeyFrame == [][C25_Step]_vars

\* a call of blindSign has raised on a signer that holds a generated key
C25_Witness ==
    /\ lastOp = "blindSign" /\ err = "runtime_error"
    /\ keygens = 1 /\ s # ZeroPoly(ring_dim_n, modulus)
    /\ pubkey = << a, b >>

\* C26: a call hashToPolynomial(m) makes exactly ceil(n / 256) SHA-256
\* invocations, the k-th over the 4-byte counter k - 1 followed by m, and
\* coefficient i of its result is floor(q / 2) if bit i mod 256 of the digest
\* for counter i div 256 is set (most significant bit of each byte first),
\* and 0 otherwise.
C26_CounterModeHash ==
    lastOp = "hashToPolynomial" =>
        /\ Len(hashBlocks) = (ring_dim_n + 255) \div 256
        /\ \A k \in 1..Len(hashBlocks) :
             hashBlocks[k] = counterBytes(k - 1) \o vmsg
        /\ hashResult.ring_dim = ring_dim_n /\ hashResult.modulus = modulus
        /\ DOMAIN hashResult.coeffs = 0..(ring_dim_n - 1)
        /\ \A i \in 0..(ring_dim_n - 1) :
             hashResult.coeffs[i] =
               IF bitOf(SHA256_hash(counterBytes(i \div 256) \o vmsg)
                          [((i % 256) \div 8) + 1], 7 - (i % 8)) = 1
               THEN modulus \div 2 ELSE 0

\* a message of four bytes has been hashed on a signer of ring dimension
\* 1024, with four digests, and its first digest does not begin with a set bit
C26_Witness ==
    /\ lastOp = "hashToPolynomial" /\ ring_dim_n = 1024
    /\ vmsg = <<222, 173, 190, 239>> /\ Len(hashBlocks) = 4
    /\ hashBlocks[4] = <<3, 0, 0, 0, 222, 173, 190, 239>>
    /\ hashResult.coeffs[0] = 0 /\ hashResult.coeffs[1] = modulus \div 2

\* C27: for a modulus below 2^63 and operands in [0, q), NTT::modMul and the
\* scalar product of Polynomial return (a * b) mod q as computed over the
\* integers.
C27_ExactProduct ==
    arith.op \in {"modMul", "scale"} =>
        arith.result = modMul_exact(arith.x, arith.y, arith.m)

\* C28: setCoefficients(v) with |v| = n stores v[i] mod q, a value in
\* [0, q), at every index, whatever 64-bit value v[i] is; with |v| # n it
\* raises invalid_argument and leaves the coefficients as they were.
C28_SetCoefficients ==
    arith.op = "setCoefficients" =>
        IF Len(arith.y) = Len(arith.x)
        THEN /\ ~arith.raised
             /\ \A i \in 1..Len(arith.y) :
                  /\ arith.result[i] = remainder(arith.y[i], u64(arith.m))
                  /\ ~geq(arith.result[i], u64(arith.m), 8)
        ELSE arith.raised /\ arith.result = arith.x

RECURSIVE gcd(_, _)
gcd(x, y) == IF y = 0 THEN x ELSE gcd(y, x % y)

\* gcd(x, 2^64 - k) for 0 < x below 2^15
gcdTop(x, k) == gcd(x, (modPow(2, 64, x) + x - (k % x)) % x)

\* t, read as a uint64_t, is an inverse of x modulo 2^64 - k in [0, 2^64 - k):
\* 2^64 is k modulo 2^64 - k, and a number of magnitude below 2^31 is 1 modulo
\* 2^64 - k only if it is 1
inverseTop(x, k, t) ==
    /\ t >= 0 \/ t < -k
    /\ x * (IF t >= 0 THEN t ELSE t + k) = 1

C30_Construction ==
    (arith.op = "NTT" /\ arith.y) =>
        IF /\ \E k \in 0..10 : arith.x = 2 ^ k
           /\ arith.m >= 2
           /\ arith.m % (2 * arith.x) = 1
           /\ getPsiTables(arith.x, arith.m) # NoTable
        THEN /\ ~arith.raised
             /\ arith.result.omega_ =
                  (getPsiTables(arith.x, arith.m).psi
                     * getPsiTables(arith.x, arith.m).psi) % arith.m
             /\ (arith.result.omega_ * arith.result.omega_inv_) % arith.m = 1
             /\ (arith.x * arith.result.n_inv_) % arith.m = 1
        ELSE arith.raised /\ arith.result = "invalid_argument"

\* a context for (32, 7681) has been constructed
C30_Witness ==
    /\ arith.op = "NTT" /\ arith.y /\ ~arith.raised
    /\ arith.x = 32 /\ arith.m = 7681
    /\ arith.result.omega_ # 1

\* C22: two signers running operations on separate threads share no mutable
\* state: no location accessed by one thread is written by the other, the
\* logger's flag, its stream pointer and the stream included.
C22_NoSharedWrites ==
    \A x \in accesses, y \in accesses :
        (x.thread # y.thread /\ x.loc = y.loc) =>
            (x.kind = "read" /\ y.kind = "read")

====
